---- MODULE Spec2Model ----
(***************************************************************************)
(* Model of the jellyplex-sync synchronisation engine                      *)
(* (src/src/jellyplex/sync.py, library.py, jellyfin.py, plex.py, utils.py).*)
(*                                                                         *)
(* The file system is a flat map from paths to nodes.  A path is a         *)
(* sequence of names, a name is a record holding the pieces of the file    *)
(* name grammar the two conventions read and write:                        *)
(*   t     title text (no dots)                                            *)
(*   g     length of the whitespace run between title and "(year)"         *)
(*   y     the four digits of "(year)", None when there is no year block   *)
(*   form  "J": metadata written as " - <variant>"   (Jellyfin)            *)
(*         "P": metadata written as "{edition-..} [..]" blocks (Plex)      *)
(*         "N": no metadata in the name                                    *)
(*   ed    edition text, None when absent                                  *)
(*   res   canonical resolution, None when absent                          *)
(*   rest  the dot separated tail of the name, <<"en","srt">> = ".en.srt"  *)
(***************************************************************************)
EXTENDS Integers, Sequences, FiniteSets, TLC

None == ""

\* ------------------------------------------------------------------------
\* Bounds of the model
\* ------------------------------------------------------------------------
MaxRuns == 2

\* ------------------------------------------------------------------------
\* library.py: accepted suffixes (the model keeps two of each set)
\* ------------------------------------------------------------------------
ACCEPTED_VIDEO_SUFFIXES == {"mkv", "mp4"}

ACCEPTED_ASSOCIATED_SUFFIXES == {"srt", "nfo"}

MIN_SOURCE_ITEMS_FOR_DELETE == 1

\* ------------------------------------------------------------------------
\* Names and pathlib
\* ------------------------------------------------------------------------
Nm(t, g, y, form, ed, res, rest) ==
    [t |-> t, g |-> g, y |-> y, form |-> form, ed |-> ed, res |-> res, rest |-> rest]

Front(s) == SubSeq(s, 1, Len(s) - 1)

Last(s) == s[Len(s)]

IsPrefix(s, t) == Len(s) <= Len(t) /\ SubSeq(t, 1, Len(s)) = s

\* pathlib.PurePath.suffix (lower-cased by the callers): the last dot component
Suffix(n) == IF n.rest = <<>> THEN None ELSE Last(n.rest)

\* pathlib.PurePath.stem: the name without its last dot component
Stem(n) == IF n.rest = <<>> THEN n ELSE [n EXCEPT !.rest = Front(n.rest)]

\* str.startswith(stem + "."): same base text, and the tail continues after the stem
StartsWithStemDot(n, stem) ==
    /\ [n EXCEPT !.rest = <<>>] = [stem EXCEPT !.rest = <<>>]
    /\ IsPrefix(stem.rest, n.rest)
    /\ Len(n.rest) > Len(stem.rest)

\* f"{target_stem}{name[len(base_stem):]}"
ReplaceStem(n, base_stem, target_stem) ==
    [target_stem EXCEPT
        !.rest = target_stem.rest \o SubSeq(n.rest, Len(base_stem.rest) + 1, Len(n.rest))]

\* str.startswith("."): the names of the model that begin with a dot
DotTitles == {".trash"}

StartsWithDot(n) == n.t \in DotTitles

PathName(p) == Last(p)

Parent(p) == Front(p)

\* ------------------------------------------------------------------------
\* File system: path -> [kind, ino]
\* ------------------------------------------------------------------------
DirNode == [kind |-> "dir", ino |-> 0]

FileNode(i) == [kind |-> "file", ino |-> i]

Exists(fs, p) == p \in DOMAIN fs

IsDir(fs, p) == Exists(fs, p) /\ fs[p].kind = "dir"

IsFile(fs, p) == Exists(fs, p) /\ fs[p].kind = "file"

\* Path.iterdir / os.scandir: the direct children of d
ListDir(fs, d) == {p \in DOMAIN fs : Len(p) = Len(d) + 1 /\ SubSeq(p, 1, Len(d)) = d}

Under(p, d) == IsPrefix(d, p)

\* Path.samefile
SameFile(fs, p, q) == p = q \/ (IsFile(fs, p) /\ IsFile(fs, q) /\ fs[p].ino = fs[q].ino)

Restrict(f, S) == [x \in S |-> f[x]]

\* The atomic file system operations the tool issues
OpMkdir(p) == [op |-> "mkdir", path |-> p, from |-> <<>>]

OpLink(src, p) == [op |-> "link", path |-> p, from |-> src]

OpUnlink(p) == [op |-> "unlink", path |-> p, from |-> <<>>]

OpRename(from, p) == [op |-> "rename", path |-> p, from |-> from]

OpRmtree(p) == [op |-> "rmtree", path |-> p, from |-> <<>>]

\* Whether the operating system accepts the operation in fs
OpOk(fs, o) ==
    CASE o.op = "mkdir"  -> ~Exists(fs, o.path) /\ (Len(o.path) = 1 \/ IsDir(fs, Parent(o.path)))
      [] o.op = "link"   -> IsFile(fs, o.from) /\ ~Exists(fs, o.path) /\ IsDir(fs, Parent(o.path))
      [] o.op = "unlink" -> IsFile(fs, o.path)
      [] o.op = "rename" -> IsFile(fs, o.from) /\ ~IsDir(fs, o.path) /\ IsDir(fs, Parent(o.path))
      [] o.op = "rmtree" -> IsDir(fs, o.path)

\* The file system after the operation (unchanged when it is refused)
Apply(fs, o) ==
    IF ~OpOk(fs, o) THEN fs
    ELSE CASE o.op = "mkdir"  -> (o.path :> DirNode) @@ fs
           [] o.op = "link"   -> (o.path :> FileNode(fs[o.from].ino)) @@ fs
           [] o.op = "unlink" -> Restrict(fs, DOMAIN fs \ {o.path})
           [] o.op = "rename" ->
                IF o.from = o.path THEN fs
                ELSE (o.path :> fs[o.from]) @@ Restrict(fs, DOMAIN fs \ {o.from, o.path})
           [] o.op = "rmtree" -> Restrict(fs, {p \in DOMAIN fs : ~Under(p, o.path)})

RECURSIVE ApplyOps(_, _)
ApplyOps(fs, ops) ==
    IF ops = <<>> THEN fs ELSE ApplyOps(Apply(fs, ops[1]), SubSeq(ops, 2, Len(ops)))

\* A listing order for a set of directory entries
RECURSIVE SetToSeq(_)
SetToSeq(S) ==
    IF S = {} THEN <<>>
    ELSE LET x == CHOOSE x \in S : TRUE IN <<x>> \o SetToSeq(S \ {x})

Range(s) == {s[i] : i \in 1..Len(s)}

\* All listing orders of a set of directory entries
Perms(S) == {s \in [1..Cardinality(S) -> S] : Range(s) = S}

\* ------------------------------------------------------------------------
\* Convention adapters (jellyfin.py, plex.py), on the name grammar above
\* ------------------------------------------------------------------------
MovieInfo(title, year) == [title |-> title, year |-> year]

NoMovie == [title |-> None, year |-> None]

VideoInfo(ext, ed, res) == [extension |-> ext, edition |-> ed, resolution |-> res]

\* JellyfinLibrary.parse_movie_path: pattern 3 (title, whitespace, "(year)" at the
\* end) or pattern 5 (title only); PlexLibrary.parse_movie_path: blocks removed,
\* whitespace collapsed, then title and "(year)"; null when no title is left
parse_movie_path(conv, n) ==
    IF conv = "plex" /\ n.t = None THEN NoMovie
    ELSE IF n.y # None /\ n.g >= 1 THEN MovieInfo(n.t, n.y)
    ELSE MovieInfo(n.t, None)

\* movie_name of both conventions: title, one space, "(year)"
movie_name(conv, movie) ==
    Nm(movie.title, IF movie.year # None THEN 1 ELSE 0, movie.year, "N", None, None, <<>>)

\* parse_video_path: Jellyfin reads the variant after " - ", Plex reads the
\* {edition-..} and [..] blocks; a name written in the other form has neither
parse_video_path(conv, n) ==
    LET own == IF conv = "plex" THEN "P" ELSE "J"
    IN  IF n.form = own THEN VideoInfo(Suffix(n), n.ed, n.res)
        ELSE VideoInfo(Suffix(n), None, None)

\* video_name: the movie name followed by the metadata in the convention's form
video_name(conv, movie, video) ==
    LET m   == movie_name(conv, movie)
        own == IF conv = "plex" THEN "P" ELSE "J"
        has == video.edition # None \/ video.resolution # None
    IN  Nm(m.t, m.g, m.y, IF has THEN own ELSE "N", video.edition, video.resolution,
           <<video.extension>>)

\* MediaLibrary.movie_path
movie_path(base_dir, conv, movie) == Append(base_dir, movie_name(conv, movie))

\* MediaLibrary.video_path
video_path(base_dir, conv, movie, video) ==
    Append(movie_path(base_dir, conv, movie), video_name(conv, movie, video))

\* ------------------------------------------------------------------------
\* sync.py: helpers shared by the handlers
\* ------------------------------------------------------------------------
\* Run one file system operation inside a handler: nothing in dry-run mode,
\* nothing when the operating system refuses it (the error is caught and
\* logged), nothing once an exception is on its way out of the handler.
\* acc.denied holds the kinds of operation the operating system refuses with
\* an OSError whatever the state of the tree (permission denied, cross-device,
\* busy)
Exec(acc, dry, o) ==
    IF acc.raised \/ dry \/ ~OpOk(acc.fs, o) \/ o.op \in acc.denied THEN acc
    ELSE [acc EXCEPT !.fs = Apply(acc.fs, o), !.ops = Append(acc.ops, o)]

\* The same outside any try block (process_movie line 397): a refused
\* operation raises, and the exception leaves process_movie and sync
ExecUnguarded(acc, dry, o) ==
    IF ~dry /\ ~acc.raised /\ (o.op \in acc.denied \/ ~OpOk(acc.fs, o))
    THEN [acc EXCEPT !.raised = TRUE]
    ELSE Exec(acc, dry, o)

\* utils.remove: unlink a file, rmtree a directory
RemoveOp(fs, p) == IF IsDir(fs, p) THEN OpRmtree(p) ELSE OpUnlink(p)

\* utils.remove with its return value.  denied holds the kinds of operation
\* the operating system refuses (EACCES, EBUSY); gone says that the entry
\* disappears between the type test and the call, which then fails with ENOENT
remove(fs, item, denied, gone) ==
    IF ~Exists(fs, item) THEN [fs |-> fs, ok |-> FALSE]
    ELSE IF gone THEN [fs |-> Apply(fs, RemoveOp(fs, item)), ok |-> TRUE]
    ELSE IF RemoveOp(fs, item).op \in denied THEN [fs |-> fs, ok |-> FALSE]
    ELSE [fs |-> Apply(fs, RemoveOp(fs, item)), ok |-> TRUE]

RECURSIVE ExecAll(_, _, _)
ExecAll(acc, dry, ops) ==
    IF ops = <<>> THEN acc
    ELSE ExecAll(Exec(acc, dry, ops[1]), dry, SubSeq(ops, 2, Len(ops)))

\* "skip if same inode, replace if different inode, create if absent"
\* (process_assets_folder lines 234-254, process_movie lines 526-547)
LinkOrReplace(acc, dry, src, dest) ==
    IF Exists(acc.fs, dest) THEN
        IF SameFile(acc.fs, dest, src) THEN acc
        ELSE IF dry THEN acc
        ELSE LET a1 == Exec(acc, dry, OpUnlink(dest))
                 a2 == Exec(a1, dry, OpLink(src, dest))
             IN  IF a2.ops # a1.ops THEN [a2 EXCEPT !.alinked = @ + 1] ELSE a2
    ELSE IF dry THEN acc
    ELSE LET a2 == Exec(acc, dry, OpLink(src, dest))
         IN  IF a2.ops # acc.ops THEN [a2 EXCEPT !.alinked = @ + 1] ELSE a2

\* ------------------------------------------------------------------------
\* sync.py: process_assets_folder
\* ------------------------------------------------------------------------
RECURSIVE process_assets_folder(_, _, _, _)
RECURSIVE AssetEntries(_, _, _, _)

\* st_size == 0: the size belongs to the inode, the inodes of EmptyInodes are
\* those of zero-byte files
EmptyInodes == {9}

IsEmptyFile(fs, p) == IsFile(fs, p) /\ fs[p].ino \in EmptyInodes

\* lines 244-249: dest.unlink() raises (dest is a directory, or the unlink is
\* refused), the except clause goes on with the next entry
UnlinkRaises(acc, dry, dest, entry) ==
    /\ Exists(acc.fs, dest) /\ ~SameFile(acc.fs, dest, entry) /\ ~dry
    /\ (~OpOk(acc.fs, OpUnlink(dest)) \/ "unlink" \in acc.denied)

\* variant: subfolders are not descended into
AssetEntry_Flat(st, entry, dest, o) ==
    IF ~IsFile(st.acc.fs, entry) THEN [st EXCEPT !.synced = @ \cup {PathName(entry)}]
    ELSE IF IsEmptyFile(st.acc.fs, entry) THEN st
    ELSE IF UnlinkRaises(st.acc, o.dry_run, dest, entry) THEN st
    ELSE [acc |-> LinkOrReplace(st.acc, o.dry_run, entry, dest),
          synced |-> st.synced \cup {PathName(entry)}]

\* lines 216-256: one entry of the source folder, on the record st of the
\* accumulator and synced_items; a zero-byte file and a file whose target
\* cannot be unlinked are not entered in synced_items
AssetEntry(st, entry, dest, o) ==
    IF IsDir(st.acc.fs, entry)
    THEN [acc |-> process_assets_folder(st.acc, entry, dest, o),
          synced |-> st.synced \cup {PathName(entry)}]
    ELSE IF ~IsFile(st.acc.fs, entry) THEN [st EXCEPT !.synced = @ \cup {PathName(entry)}]
    ELSE IF IsEmptyFile(st.acc.fs, entry) THEN st
    ELSE IF UnlinkRaises(st.acc, o.dry_run, dest, entry) THEN st
    ELSE [acc |-> LinkOrReplace(st.acc, o.dry_run, entry, dest),
          synced |-> st.synced \cup {PathName(entry)}]

\* lines 216-256: the loop over the entries of the source folder
AssetEntries(st, entries, target_path, o) ==
    IF entries = <<>> THEN st
    ELSE AssetEntries(AssetEntry(st, entries[1], Append(target_path, PathName(entries[1])), o),
                      SubSeq(entries, 2, Len(entries)), target_path, o)

\* lines 258-268: the stray items of the target folder are removed
RemoveAssetStrays(acc, strays, o) ==
    [ExecAll(acc, o.dry_run, SetToSeq({RemoveOp(acc.fs, e) : e \in strays}))
        EXCEPT !.aremoved = @ + Cardinality(strays)]

AssetsMirrored(st, target_path, o) ==
    IF o.delete /\ IsDir(st.acc.fs, target_path)
    THEN RemoveAssetStrays(st.acc,
                           {e \in ListDir(st.acc.fs, target_path) : PathName(e) \notin st.synced},
                           o)
    ELSE st.acc

\* lines 213-268, on the accumulator a0 the folder is entered with
AssetsFrom(a0, source_path, target_path, o) ==
    AssetsMirrored(AssetEntries([acc |-> a0, synced |-> {}],
                                SetToSeq(ListDir(a0.fs, source_path)), target_path, o),
                   target_path, o)

\* lines 194-270
process_assets_folder(acc, source_path, target_path, o) ==
    AssetsFrom(IF ~Exists(acc.fs, target_path)
               THEN Exec(acc, o.dry_run, OpMkdir(target_path))
               ELSE acc,
               source_path, target_path, o)

\* ------------------------------------------------------------------------
\* sync.py: process_movie
\* A call context c holds the arguments: sconv, tconv (the conventions of the
\* source and target library), tbase (target.base_dir), source_path, movie, and
\* o (the options dry_run, delete, update_filenames).
\* ------------------------------------------------------------------------
TargetPath(c) == movie_path(c.tbase, c.tconv, c.movie)

\* line 319: a regular file with an accepted video suffix
IsVideo(fs, p) == IsFile(fs, p) /\ Suffix(PathName(p)) \in ACCEPTED_VIDEO_SUFFIXES

\* lines 320-322: the intended target of one source video
VideoItem(c, entry) ==
    LET video == parse_video_path(c.sconv, PathName(entry))
        vp    == video_path(c.tbase, c.tconv, c.movie, video)
    IN  [name |-> PathName(vp), src |-> entry, tgt |-> vp]

\* variant: every file of the folder with an accepted sidecar suffix belongs
\* to the video
AssociatedItems_AnyStem(fs, c, entry, video_path_) ==
    LET base_stem   == Stem(PathName(entry))
        target_stem == Stem(PathName(video_path_))
        found == {e \in ListDir(fs, c.source_path) :
                     /\ e # entry
                     /\ Suffix(PathName(e)) \in ACCEPTED_ASSOCIATED_SUFFIXES}
    IN  {[name |-> ReplaceStem(PathName(e), base_stem, target_stem),
          src  |-> e,
          tgt  |-> Append(TargetPath(c), ReplaceStem(PathName(e), base_stem, target_stem))]
            : e \in found}

\* lines 330-351: the sidecars of one source video, mapped to the target stem
AssociatedItems(fs, c, entry, video_path_) ==
    LET base_stem   == Stem(PathName(entry))
        target_stem == Stem(PathName(video_path_))
        found == {e \in ListDir(fs, c.source_path) :
                     /\ e # entry
                     /\ StartsWithStemDot(PathName(e), base_stem)
                     /\ Suffix(PathName(e)) \in ACCEPTED_ASSOCIATED_SUFFIXES}
    IN  {[name |-> ReplaceStem(PathName(e), base_stem, target_stem),
          src  |-> e,
          tgt  |-> Append(TargetPath(c), ReplaceStem(PathName(e), base_stem, target_stem))]
            : e \in found}

Names(items) == {items[i].name : i \in 1..Len(items)}

\* dict insertion that keeps the first value of a key (line 347)
RECURSIVE AddMissing(_, _)
AddMissing(items, new) ==
    IF new = <<>> THEN items
    ELSE AddMissing(IF new[1].name \in Names(items) THEN items ELSE Append(items, new[1]),
                    SubSeq(new, 2, Len(new)))

\* variant: the check compares the source file names, which never repeat
VideoConflict_BySourceName(videos, item) ==
    PathName(item.src) \in {PathName(videos[i].src) : i \in 1..Len(videos)}

\* line 323: a second source video computing an already taken target name
VideoConflict(videos, item) == item.name \in Names(videos)

\* lines 311-351: the loop over the video files, in listing order
RECURSIVE ScanVideos(_, _, _, _)
ScanVideos(fs, c, order, scan) ==
    IF order = <<>> \/ scan.conflict THEN scan
    ELSE LET item == VideoItem(c, order[1])
         IN  IF VideoConflict(scan.videos, item)
             THEN [scan EXCEPT !.conflict = TRUE]
             ELSE ScanVideos(fs, c, SubSeq(order, 2, Len(order)),
                    [scan EXCEPT
                       !.videos = Append(@, item),
                       !.assets = AddMissing(@,
                                     SetToSeq(AssociatedItems(fs, c, order[1], item.tgt)))])

\* lines 353-359: the first-level subfolders of the source folder that are not
\* hidden
AssetDirs(fs, c) ==
    {[name |-> PathName(e), src |-> e, tgt |-> Append(TargetPath(c), PathName(e))]
        : e \in {d \in ListDir(fs, c.source_path) : IsDir(fs, d) /\ ~StartsWithDot(PathName(d))}}

\* lines 301-359
ScanSourceFolder(fs, c, order) ==
    LET s0 == ScanVideos(fs, c, order, [conflict |-> FALSE, videos |-> <<>>, assets |-> <<>>])
    IN  IF s0.conflict THEN s0
        ELSE [s0 EXCEPT !.assets = AddMissing(@, SetToSeq(AssetDirs(fs, c)))]

\* lines 369-383: the possible contents of existing_inodes; when several target
\* videos share an inode the listing order decides which one is kept
InodeIndexChoices(fs, target_path) ==
    LET cands == {p \in ListDir(fs, target_path) : IsVideo(fs, p)}
        inos  == {fs[p].ino : p \in cands}
    IN  {idx \in [inos -> cands] : \A i \in inos : fs[idx[i]].ino = i}

\* lines 413-420
EditionsMatch(tconv, intended, candidate) ==
    parse_video_path(tconv, PathName(intended)).edition
        = parse_video_path(tconv, PathName(candidate)).edition

\* lines 477-483
LinkVideo(c, acc, item) ==
    IF acc.raised THEN acc
    ELSE IF c.o.dry_run THEN [acc EXCEPT !.linked = @ + 1]
    ELSE LET a1 == Exec(acc, FALSE, OpLink(item.src, item.tgt))
         IN  IF a1.ops # acc.ops THEN [a1 EXCEPT !.linked = @ + 1] ELSE a1

\* lines 435-458: the sidecars of the stale video follow it to the new stem
AssocRenames(fs, stale, tgt) ==
    LET stale_stem  == Stem(PathName(stale))
        target_stem == Stem(PathName(tgt))
        files == {f \in ListDir(fs, Parent(tgt)) :
                     /\ f # stale /\ f # tgt
                     /\ IsFile(fs, f)
                     /\ Suffix(PathName(f)) \in ACCEPTED_ASSOCIATED_SUFFIXES
                     /\ StartsWithStemDot(PathName(f), stale_stem)}
    IN  {OpRename(f, Append(Parent(tgt), ReplaceStem(PathName(f), stale_stem, target_stem)))
            : f \in files}

\* lines 423-463: repair of a stale link
RenameStale(c, acc, item, stale, source_inode) ==
    LET rn == OpRename(stale, item.tgt)
    IN  IF ~c.o.dry_run /\ (~OpOk(acc.fs, rn) \/ rn.op \in acc.denied) THEN acc
        ELSE LET a1 == Exec(acc, c.o.dry_run, rn)
                 a2 == ExecAll(a1, c.o.dry_run, SetToSeq(AssocRenames(a1.fs, stale, item.tgt)))
             IN  [a2 EXCEPT !.idx = Restrict(@, DOMAIN @ \ {source_inode})]

\* lines 465-475: the stale link is kept and reported
PreserveStale(c, acc, item, stale) ==
    LET stale_stem == Stem(PathName(stale))
        assoc == {PathName(f) : f \in {f \in ListDir(acc.fs, TargetPath(c)) :
                     /\ IsFile(acc.fs, f)
                     /\ StartsWithStemDot(PathName(f), stale_stem)
                     /\ Suffix(PathName(f)) \in ACCEPTED_ASSOCIATED_SUFFIXES}}
    IN  [acc EXCEPT
            !.warned = @ \cup {[stale |-> stale, expected |-> item.tgt]},
            !.preserved = @ \cup {PathName(stale)} \cup assoc]

\* lines 401-408: the stale candidate of a source video, <<>> when there is none
StaleCandidate(acc, item) ==
    LET source_inode == acc.fs[item.src].ino
    IN  IF source_inode \in DOMAIN acc.idx THEN acc.idx[source_inode] ELSE <<>>

\* lines 410-475: what is done with a found stale candidate
HandleStale(c, acc, item, stale) ==
    IF c.o.update_filenames \/ EditionsMatch(c.tconv, item.tgt, stale)
    THEN IF c.o.update_filenames
         THEN RenameStale(c, acc, item, stale, acc.fs[item.src].ino)
         ELSE PreserveStale(c, acc, item, stale)
    ELSE LinkVideo(c, acc, item)

\* lines 404-405: the candidate is taken from existing_inodes; acc.taken keeps
\* what the index said and what the target folder holds at that moment
TakeCandidate(acc, item) ==
    LET stale == StaleCandidate(acc, item)
    IN  [acc EXCEPT !.taken = Append(@,
            [candidate |-> stale,
             source_inode |-> acc.fs[item.src].ino,
             exists |-> IsFile(acc.fs, stale),
             inode |-> IF IsFile(acc.fs, stale) THEN acc.fs[stale].ino ELSE 0])]

\* lines 387-483: one iteration of the video loop
ProcessVideo(c, acc, item) ==
    IF Exists(acc.fs, item.tgt) THEN
        IF SameFile(acc.fs, item.tgt, item.src) THEN acc
        ELSE LinkVideo(c, ExecUnguarded(acc, c.o.dry_run, OpUnlink(item.tgt)), item)
    ELSE IF StaleCandidate(acc, item) # <<>>
         THEN HandleStale(c, TakeCandidate(acc, item), item, StaleCandidate(acc, item))
         ELSE LinkVideo(c, acc, item)

RECURSIVE ProcessVideos(_, _, _)
ProcessVideos(c, acc, videos) ==
    IF videos = <<>> \/ acc.raised THEN acc
    ELSE ProcessVideos(c, ProcessVideo(c, acc, videos[1]), SubSeq(videos, 2, Len(videos)))

\* variant: the preserved stale names are not looked at
MovieStrays_IgnorePreserved(fs, c, scan, preserved) ==
    {e \in ListDir(fs, TargetPath(c)) :
        /\ PathName(e) \notin Names(scan.videos)
        /\ PathName(e) \notin Names(scan.assets)}

\* lines 485-502: stray cleanup of the movie's target folder
MovieStrays(fs, c, scan, preserved) ==
    {e \in ListDir(fs, TargetPath(c)) :
        /\ PathName(e) \notin Names(scan.videos)
        /\ PathName(e) \notin Names(scan.assets)
        /\ PathName(e) \notin preserved}

CleanupMovie(c, acc, scan) ==
    IF ~acc.raised /\ c.o.delete /\ IsDir(acc.fs, TargetPath(c))
    THEN LET strays == MovieStrays(acc.fs, c, scan, acc.preserved)
         IN  [ExecAll(acc, c.o.dry_run, SetToSeq({RemoveOp(acc.fs, e) : e \in strays}))
                EXCEPT !.removed = @ + Cardinality(strays)]
    ELSE acc

\* lines 505-548: asset folders and sidecar files
RECURSIVE SyncAssets(_, _, _)
SyncAssets(c, acc, assets) ==
    IF assets = <<>> \/ acc.raised THEN acc
    ELSE LET item == assets[1]
             a1 == IF IsDir(acc.fs, item.src)
                   THEN process_assets_folder(acc, item.src, item.tgt, c.o)
                   ELSE IF ~IsFile(acc.fs, item.src) THEN acc
                   ELSE IF IsEmptyFile(acc.fs, item.src) THEN acc
                   ELSE IF c.o.dry_run /\ ~SameFile(acc.fs, item.tgt, item.src)
                   THEN [acc EXCEPT !.alinked = @ + 1]
                   ELSE LinkOrReplace(acc, c.o.dry_run, item.src, item.tgt)
         IN  SyncAssets(c, a1, SubSeq(assets, 2, Len(assets)))

NewAcc(fs, idx) ==
    [fs |-> fs, ops |-> <<>>, idx |-> idx, preserved |-> {}, warned |-> {},
     linked |-> 0, removed |-> 0, alinked |-> 0, aremoved |-> 0, conflict |-> FALSE,
     denied |-> {}, raised |-> FALSE, taken |-> <<>>]

\* process_movie as a whole.  order is the listing order of the source videos,
\* idx the content of existing_inodes after the pre-scan of the target folder.
process_movie(fs, c, order, idx) ==
    LET scan == ScanSourceFolder(fs, c, order)
        a0   == [NewAcc(fs, idx) EXCEPT !.denied = c.o.denied]
    IN  IF c.o.unreadable /\ c.source_path = c.o.source THEN a0
        ELSE IF scan.conflict THEN [a0 EXCEPT !.conflict = TRUE]
        ELSE LET a1 == IF ~Exists(fs, TargetPath(c))
                       THEN Exec(a0, c.o.dry_run, OpMkdir(TargetPath(c)))
                       ELSE a0
                 a2 == ProcessVideos(c, a1, scan.videos)
                 a3 == CleanupMovie(c, a2, scan)
             IN  SyncAssets(c, a3, scan.assets)

\* ------------------------------------------------------------------------
\* sync.py: is_source_empty_or_unmounted, resolve_movie_folder,
\* MediaLibrary.scan, scan_media_library
\* ------------------------------------------------------------------------
SubDirs(fs, d) == {e \in ListDir(fs, d) : IsDir(fs, e)}

\* variant: every entry is counted, not only the directories
is_source_empty_or_unmounted_AnyEntry(fs, source_path, unreadable) ==
    IF unreadable THEN TRUE
    ELSE Cardinality(ListDir(fs, source_path)) < MIN_SOURCE_ITEMS_FOR_DELETE

\* lines 33-57; unreadable: os.scandir raises OSError
is_source_empty_or_unmounted(fs, source_path, unreadable) ==
    IF unreadable THEN TRUE
    ELSE Cardinality(SubDirs(fs, source_path)) < MIN_SOURCE_ITEMS_FOR_DELETE

\* lines 98-122; <<>> stands for None
resolve_movie_folder(fs, base_dir, partial_path) ==
    IF partial_path = <<>> THEN <<>>
    ELSE IF IsDir(fs, partial_path) /\ IsPrefix(base_dir, partial_path) THEN partial_path
    ELSE IF IsDir(fs, Append(base_dir, PathName(partial_path)))
         THEN Append(base_dir, PathName(partial_path))
    ELSE <<>>

\* library.py lines 68-88: the first-level folders whose names parse
ScanLibrary(fs, conv, base_dir, unreadable) ==
    IF unreadable THEN {}
    ELSE {e \in SubDirs(fs, base_dir) : parse_movie_path(conv, PathName(e)) # NoMovie}

SourceConv(cfg) == IF cfg.convert_to = "plex" THEN "jellyfin" ELSE "plex"

TargetConv(cfg) == cfg.convert_to

\* lines 145-155: movies_to_sync and conflicting_source_dirs after the scan loop.
\* m2s is a sequence of [key, entry] in insertion order, entry = <<>> for None;
\* conf maps a target name to the list of conflicting source names
\* variant: the folder stored first under the key is left out of the list
FirstConflict_Forgotten(item) == <<>>

\* line 150: the conflict list of a key starts with the folder stored under it
FirstConflict(item) == IF item.entry # <<>> THEN <<PathName(item.entry)>> ELSE <<>>

RECURSIVE Reconcile(_, _, _)
Reconcile(cfg, entries, st) ==
    IF entries = <<>> THEN st
    ELSE LET entry == entries[1]
             movie == parse_movie_path(SourceConv(cfg), PathName(entry))
             target_name == movie_name(TargetConv(cfg), movie)
             pos == {i \in 1..Len(st.m2s) : st.m2s[i].key = target_name}
             st1 ==
               IF pos # {} THEN
                 LET i == CHOOSE i \in pos : TRUE
                     first == IF target_name \in DOMAIN st.conf THEN st.conf[target_name]
                              ELSE FirstConflict(st.m2s[i])
                 IN  [m2s  |-> [st.m2s EXCEPT ![i].entry = <<>>],
                      conf |-> (target_name :> Append(first, PathName(entry))) @@ st.conf]
               ELSE [st EXCEPT !.m2s = Append(@, [key |-> target_name, entry |-> entry])]
         IN  Reconcile(cfg, SubSeq(entries, 2, Len(entries)), st1)

NoConf == [x \in {} |-> <<>>]

\* lines 166-170: the movies the generator yields
RECURSIVE Resolved(_)
Resolved(m2s) ==
    IF m2s = <<>> THEN <<>>
    ELSE (IF m2s[1].entry = <<>> THEN <<>> ELSE <<m2s[1].entry>>)
            \o Resolved(SubSeq(m2s, 2, Len(m2s)))

\* variant: the entry itself, not its name, is looked up among the keys
RootStrays_ByPath(fs, target_base, keys) ==
    {e \in ListDir(fs, target_base) : e \notin keys}

\* lines 172-184: stray top-level entries of the target library
RootStrays(fs, target_base, keys) ==
    {e \in ListDir(fs, target_base) : PathName(e) \notin keys}

\* the arguments of one process_movie call
Ctx(cfg, source_path) ==
    [sconv |-> SourceConv(cfg), tconv |-> TargetConv(cfg), tbase |-> cfg.target,
     source_path |-> source_path,
     movie |-> parse_movie_path(SourceConv(cfg), PathName(source_path)),
     o |-> cfg]

\* the listing orders of the videos of a source folder
VideoOrders(fs, source_path) == Perms({e \in ListDir(fs, source_path) : IsVideo(fs, e)})

\* ------------------------------------------------------------------------
\* sync.py: sync
\* cfg holds the arguments of the invocation: source, target (the resolved
\* roots), convert_to, dry_run, delete, create, update_filenames, partial (the
\* partial path, <<>> when absent), unreadable (listing the source root fails)
\* and denied (the kinds of operation the operating system refuses)
\* ------------------------------------------------------------------------
Return(fs, ops, code) ==
    [fs |-> fs, ops |-> ops, pc |-> "done", result |-> code,
     queue |-> <<>>, keys |-> {}, report |-> NoConf]

\* variant: the movies are yielded although folders collide
BeginScan_NoBailOut(fs, ops, cfg, entries) ==
    IF cfg.source = cfg.target THEN Return(fs, ops, "ValueError")
    ELSE LET st == Reconcile(cfg, entries, [m2s |-> <<>>, conf |-> NoConf])
         IN  [fs |-> fs, ops |-> ops, pc |-> "movies", result |-> "none",
              queue |-> Resolved(st.m2s),
              keys |-> {st.m2s[i].key : i \in 1..Len(st.m2s)},
              report |-> st.conf]

\* lines 137-170: scan_media_library up to its first yield (or its return)
BeginScan(fs, ops, cfg, entries) ==
    IF cfg.source = cfg.target THEN Return(fs, ops, "ValueError")
    ELSE LET st == Reconcile(cfg, entries, [m2s |-> <<>>, conf |-> NoConf])
         IN  IF DOMAIN st.conf # {}
             THEN [Return(fs, ops, "0") EXCEPT !.report = st.conf]
             ELSE [fs |-> fs, ops |-> ops, pc |-> "movies", result |-> "none",
                   queue |-> Resolved(st.m2s),
                   keys |-> {st.m2s[i].key : i \in 1..Len(st.m2s)},
                   report |-> NoConf]

\* lines 693-704: single-folder mode up to the process_movie call
BeginPartial(fs, ops, cfg) ==
    LET movie_folder == resolve_movie_folder(fs, cfg.source, cfg.partial)
    IN  IF movie_folder = <<>> THEN Return(fs, ops, "1")
        ELSE IF parse_movie_path(SourceConv(cfg), PathName(movie_folder)) = NoMovie
        THEN Return(fs, ops, "1")
        ELSE [fs |-> fs, ops |-> ops, pc |-> "movies", result |-> "none",
              queue |-> <<movie_folder>>, keys |-> {}, report |-> NoConf]

\* lines 666-679: the source root must exist, and must not look unmounted
\* when a full run may delete
SourceRefused(fs, cfg) ==
    \/ ~IsDir(fs, cfg.source)
    \/ /\ cfg.delete
       /\ cfg.partial = <<>>
       /\ is_source_empty_or_unmounted(fs, cfg.source, cfg.unreadable)

\* lines 681-686: the operations that make the target root exist
EnsureTarget(fs, cfg) ==
    IF IsDir(fs, cfg.target) THEN <<>>
    ELSE IF cfg.create THEN <<OpMkdir(cfg.target)>>
    ELSE <<>>

\* lines 633-720: sync up to the first movie
SyncBegin(fs, cfg, entries) ==
    IF SourceRefused(fs, cfg) THEN Return(fs, <<>>, "1")
    ELSE LET ops == EnsureTarget(fs, cfg)
             fs1 == ApplyOps(fs, ops)
         IN  IF ~IsDir(fs1, cfg.target) THEN Return(fs, <<>>, "1")
             ELSE IF cfg.partial # <<>> THEN BeginPartial(fs1, ops, cfg)
             ELSE BeginScan(fs1, ops, cfg, entries)

ScanOrders(fs, cfg) ==
    Perms(ScanLibrary(fs, SourceConv(cfg), cfg.source, cfg.unreadable))

\* lines 172-184: removal of the stray top-level entries
root_cleanup(fs, cfg, keys) ==
    LET strays == RootStrays(fs, cfg.target, keys)
        a0 == [NewAcc(fs, <<>>) EXCEPT !.denied = cfg.denied]
    IN  IF cfg.delete
        THEN [ExecAll(a0, cfg.dry_run, SetToSeq({RemoveOp(fs, e) : e \in strays}))
                EXCEPT !.removed = Cardinality(strays)]
        ELSE a0

\* ------------------------------------------------------------------------
\* State
\* ------------------------------------------------------------------------
VARIABLES
    fs,           \* the file system
    cfg,          \* the arguments of the invocation (the same in every run)
    pc,           \* "idle", "movies" (inside the movie sequence), "done"
    run,          \* number of runs started
    queue,        \* source folders the movie sequence has still to yield
    keys,         \* the keys of movies_to_sync
    processed,    \* source folders handed to process_movie in this run
    report,       \* the conflict report of this run
    result,       \* what sync returned
    oplog,        \* the file system operations of this run
    last,         \* the last completed process_movie call, <<>> before the first
    interrupted,  \* a run was killed before it ended
    fs0,          \* the file system when the first run started
    fsRun,        \* the file system when the current run started
    summary,      \* the numbers of the summary of this run, as counted so far
    call          \* the last direct call of a library function, with its result

vars == <<fs, cfg, pc, run, queue, keys, processed, report, result, oplog, last,
          interrupted, fs0, fsRun, summary, call>>

NoCall == [fn |-> "none"]

\* sync lines 688-691: stat_movies, stat_items_linked, stat_items_removed
NoSummary == [movies |-> 0, updated |-> 0, removed |-> 0]

\* ------------------------------------------------------------------------
\* Initial states: small libraries in both roots
\* ------------------------------------------------------------------------
DirName(t, g, y) == Nm(t, g, y, "N", None, None, <<>>)

SrcRoot == <<DirName("jf", 0, None)>>

TgtRoot == <<DirName("px", 0, None)>>

\* "Movie (2000)", "Movie  (2000)" (two spaces) and "Other (1999)"
F1 == DirName("Movie", 1, "2000")

F2 == DirName("Movie", 2, "2000")

F3 == DirName("Other", 1, "1999")

\* "Movie   (2000)" (three spaces)
F4 == DirName("Movie", 3, "2000")

Extras == DirName("extras", 0, None)

\* "Movie (2000) - DC.mkv", "Movie (2000).mkv", "Movie  (2000) - DC.mkv",
\* "Movie (2000) - DC.en.srt", "clip.mkv", "notes.txt"
sDC == Nm("Movie", 1, "2000", "J", "DC", None, <<"mkv">>)

sPlain == Nm("Movie", 1, "2000", "N", None, None, <<"mkv">>)

sDC2 == Nm("Movie", 2, "2000", "J", "DC", None, <<"mkv">>)

sDCsrt == Nm("Movie", 1, "2000", "J", "DC", None, <<"en", "srt">>)

Clip == Nm("clip", 0, None, "N", None, None, <<"mkv">>)

Notes == Nm("notes", 0, None, "N", None, None, <<"txt">>)

\* "Movie (2000) {edition-DC}.mkv", "Movie (2000) {edition-DC} [1080p].mkv" and
\* their ".en.srt" sidecars
tDC == Nm("Movie", 1, "2000", "P", "DC", None, <<"mkv">>)

tDCres == Nm("Movie", 1, "2000", "P", "DC", "1080p", <<"mkv">>)

tDCsrt == Nm("Movie", 1, "2000", "P", "DC", None, <<"en", "srt">>)

tDCresSrt == Nm("Movie", 1, "2000", "P", "DC", "1080p", <<"en", "srt">>)

\* a tree from a set of <<path, node>> pairs
Tree(entries) ==
    [p \in {e[1] : e \in entries} |-> (CHOOSE e \in entries : e[1] = p)[2]]

Dir(p) == {<<p, DirNode>>}

\* the files of a folder from a map name -> inode, 0 for an absent file
Files(d, f) == {<<Append(d, n), FileNode(f[n])>> : n \in {m \in DOMAIN f : f[m] # 0}}

\* the contents of the source folder "Movie (2000)"
SourceMovieChoices ==
    { (sDC :> 1),
      (sDC :> 1) @@ (sPlain :> 2),
      (sDC :> 1) @@ (sDC2 :> 3),
      (sDC :> 1) @@ (sDCsrt :> 4),
      (sDC :> 1) @@ (sPlain :> 2) @@ (sDCsrt :> 4) }

\* the contents of the target folder "Movie (2000)"
TargetMovieChoices ==
    { v @@ s : v \in [{tDC, sPlain, tDCres} -> {0, 1, 2}],
               s \in [{tDCsrt, tDCresSrt} -> {0, 4}] }

Options(partials, creates, unreadables, targets, updates) ==
    [source : {SrcRoot}, target : targets, convert_to : {"plex"},
     dry_run : BOOLEAN, delete : BOOLEAN, create : creates,
     update_filenames : updates, partial : partials, unreadable : unreadables,
     denied : {{}}]

\* one movie, every content of its target folder
MovieScenarios ==
    { [fs |-> Tree(Dir(SrcRoot) \cup Dir(TgtRoot)
                   \cup Dir(Append(SrcRoot, F1)) \cup Files(Append(SrcRoot, F1), sf)
                   \cup Dir(Append(TgtRoot, F1)) \cup Files(Append(TgtRoot, F1), tf)),
       cfg |-> o]
        : sf \in SourceMovieChoices, tf \in TargetMovieChoices,
          o \in Options({<<>>, Append(SrcRoot, F1)}, {FALSE}, {FALSE}, {TgtRoot}, BOOLEAN) }

sOther == Nm("Other", 1, "1999", "N", None, None, <<"mkv">>)

Old == DirName("Old", 0, None)

Mnt == DirName("mnt", 0, None)

\* the source library: missing, without folders, one movie, two or three folders
\* with a name collision, two movies without one, two movies one of which has
\* two videos with the same target name
SourceLibraryChoices ==
    { {},
      Dir(SrcRoot) \cup Files(SrcRoot, (sDC :> 1)),
      Dir(SrcRoot) \cup Dir(Append(SrcRoot, F1)) \cup Files(Append(SrcRoot, F1), (sDC :> 1)),
      Dir(SrcRoot) \cup Dir(Append(SrcRoot, F1)) \cup Files(Append(SrcRoot, F1), (sDC :> 1))
          \cup Dir(Append(SrcRoot, F2)) \cup Files(Append(SrcRoot, F2), (sDC :> 3)),
      Dir(SrcRoot) \cup Dir(Append(SrcRoot, F1)) \cup Files(Append(SrcRoot, F1), (sDC :> 1))
          \cup Dir(Append(SrcRoot, F2)) \cup Files(Append(SrcRoot, F2), (sDC :> 3))
          \cup Dir(Append(SrcRoot, F3)) \cup Files(Append(SrcRoot, F3), (sOther :> 6)),
      Dir(SrcRoot) \cup Dir(Append(SrcRoot, F1)) \cup Files(Append(SrcRoot, F1), (sDC :> 1))
          \cup Dir(Append(SrcRoot, F2)) \cup Files(Append(SrcRoot, F2), (sDC :> 3))
          \cup Dir(Append(SrcRoot, F4)) \cup Files(Append(SrcRoot, F4), (sDC :> 2)),
      Dir(SrcRoot) \cup Dir(Append(SrcRoot, F1)) \cup Files(Append(SrcRoot, F1), (sDC :> 1))
          \cup Dir(Append(SrcRoot, F1) \o <<Extras>>)
          \cup Files(Append(SrcRoot, F1) \o <<Extras>>, (Clip :> 5))
          \cup Dir(Append(SrcRoot, F3)) \cup Files(Append(SrcRoot, F3), (sOther :> 6)),
      Dir(SrcRoot) \cup Dir(Append(SrcRoot, F1))
          \cup Files(Append(SrcRoot, F1), (sDC :> 1) @@ (sDC2 :> 3))
          \cup Dir(Append(SrcRoot, F3)) \cup Files(Append(SrcRoot, F3), (sOther :> 6)) }

\* the target library: missing, empty, or one movie and two stray entries
TargetLibraryChoices ==
    { {},
      Dir(TgtRoot),
      Dir(TgtRoot) \cup Dir(Append(TgtRoot, F1)) \cup Files(Append(TgtRoot, F1), (tDC :> 1))
          \cup Dir(Append(TgtRoot, Old)) \cup Files(Append(TgtRoot, Old), (Clip :> 7))
          \cup Files(TgtRoot, (Notes :> 8)) }

\* (a library synchronised into itself with the root as the single folder makes
\* the asset mirroring descend into the directories it creates, without end)
LibraryOptions ==
    { o \in Options({<<>>, Append(SrcRoot, F1), SrcRoot, <<Mnt, F3>>, <<Mnt, Old>>},
                    BOOLEAN, BOOLEAN, {TgtRoot, SrcRoot}, {FALSE})
        : ~(o.target = o.source /\ o.partial = o.source) }

LibraryScenarios ==
    { [fs |-> Tree(sl \cup tl), cfg |-> o]
        : sl \in SourceLibraryChoices, tl \in TargetLibraryChoices, o \in LibraryOptions }

Scenarios == MovieScenarios \cup LibraryScenarios

\* two movies, the first with videos already in its target folder, strays in
\* the target root, and one kind of operation refused by the operating system
FaultScenarios ==
    { [fs |-> Tree(Dir(SrcRoot) \cup Dir(TgtRoot)
                   \cup Dir(Append(SrcRoot, F1))
                   \cup Files(Append(SrcRoot, F1), (sDC :> 1) @@ (sPlain :> 2))
                   \cup Dir(Append(SrcRoot, F3)) \cup Files(Append(SrcRoot, F3), (sOther :> 6))
                   \cup Dir(Append(TgtRoot, F1)) \cup Files(Append(TgtRoot, F1), tf)
                   \cup Files(TgtRoot, (Notes :> 8))),
       cfg |-> [o EXCEPT !.denied = {d}]]
        : tf \in [{tDC, sPlain, tDCres} -> {0, 1, 2}],
          o \in Options({<<>>}, {FALSE}, {FALSE}, {TgtRoot}, BOOLEAN),
          d \in {"link", "unlink", "rename"} }

\* "blank.jpg" (a zero-byte file in the source), "deep.jpg", "stray.jpg", the
\* folders "sub" and ".trash", "Movie (2000).en.srt" and "Movie (2000) - DC.txt"
Blank == Nm("blank", 0, None, "N", None, None, <<"jpg">>)

Deep == Nm("deep", 0, None, "N", None, None, <<"jpg">>)

Stray == Nm("stray", 0, None, "N", None, None, <<"jpg">>)

Sub == DirName("sub", 0, None)

Trash == DirName(".trash", 0, None)

sPlainSrt == Nm("Movie", 1, "2000", "N", None, None, <<"en", "srt">>)

sDCtxt == Nm("Movie", 1, "2000", "J", "DC", None, <<"txt">>)

\* the folder "extras" of the source movie: a file, maybe a zero-byte file,
\* maybe a folder with a file in it
SourceAssetChoices ==
    { Dir(Append(SrcRoot, F1) \o <<Extras>>)
        \cup Files(Append(SrcRoot, F1) \o <<Extras>>, (Clip :> 5) @@ (Blank :> b))
        \cup (IF sub
              THEN Dir(Append(SrcRoot, F1) \o <<Extras, Sub>>)
                   \cup Files(Append(SrcRoot, F1) \o <<Extras, Sub>>, (Deep :> 6))
              ELSE {})
        : b \in {0, 9}, sub \in BOOLEAN }

\* the folder "extras" of the target movie: absent, or with each file of the
\* source absent, with the same inode or with another one, and with stray
\* files at both depths
TargetSubChoices ==
    {{}} \cup
    { Dir(Append(TgtRoot, F1) \o <<Extras, Sub>>)
        \cup Files(Append(TgtRoot, F1) \o <<Extras, Sub>>, (Deep :> d) @@ (Stray :> x))
        : d \in {0, 6, 7}, x \in {0, 8} }

TargetAssetChoices ==
    {{}} \cup
    { Dir(Append(TgtRoot, F1) \o <<Extras>>)
        \cup Files(Append(TgtRoot, F1) \o <<Extras>>, (Clip :> c) @@ (Blank :> b) @@ (Stray :> x))
        \cup sub
        : c \in {0, 5, 7}, b \in {0, 7}, x \in {0, 8}, sub \in TargetSubChoices }

\* one movie with its video linked already; either a folder of assets in the
\* source (and a hidden folder), any content of it in the target and a stray
\* file in the target root, or sidecar files beside the video
AssetScenarios ==
    { [fs |-> Tree(Dir(SrcRoot) \cup Dir(TgtRoot)
                   \cup Dir(Append(SrcRoot, F1)) \cup Files(Append(SrcRoot, F1), (sDC :> 1))
                   \cup sa
                   \cup Dir(Append(SrcRoot, F1) \o <<Trash>>)
                   \cup Files(Append(SrcRoot, F1) \o <<Trash>>, (Clip :> 5))
                   \cup Dir(Append(TgtRoot, F1)) \cup Files(Append(TgtRoot, F1), (tDC :> 1))
                   \cup Files(TgtRoot, (Notes :> 8))
                   \cup ta),
       cfg |-> o]
        : sa \in SourceAssetChoices, ta \in TargetAssetChoices,
          o \in Options({<<>>}, {FALSE}, {FALSE}, {TgtRoot}, {FALSE}) }
    \cup
    { [fs |-> Tree(Dir(SrcRoot) \cup Dir(TgtRoot)
                   \cup Dir(Append(SrcRoot, F1))
                   \cup Files(Append(SrcRoot, F1),
                              (sDC :> 1) @@ (sDCsrt :> s) @@ (sPlainSrt :> p) @@ (sDCtxt :> x))
                   \cup Dir(Append(TgtRoot, F1))
                   \cup Files(Append(TgtRoot, F1), (tDC :> 1) @@ (tDCsrt :> t))),
       cfg |-> o]
        : s \in {0, 4, 9}, p \in {0, 3}, x \in {0, 2}, t \in {0, 4, 7},
          o \in Options({<<>>}, {FALSE}, {FALSE}, {TgtRoot}, BOOLEAN) }

\* the source library in the folder "jf" of the target root: one movie or
\* two, the first one maybe in the target already, a stray file in the
\* target root
NestedRoot == TgtRoot \o SrcRoot

NestedScenarios ==
    { [fs |-> Tree(Dir(TgtRoot) \cup Dir(NestedRoot)
                   \cup Dir(Append(NestedRoot, F1))
                   \cup Files(Append(NestedRoot, F1), (sDC :> 1) @@ (sDCsrt :> s))
                   \cup (IF two
                         THEN Dir(Append(NestedRoot, F3))
                              \cup Files(Append(NestedRoot, F3), (sOther :> 6))
                         ELSE {})
                   \cup (IF t = 0 THEN {}
                         ELSE Dir(Append(TgtRoot, F1)) \cup Files(Append(TgtRoot, F1), (tDC :> t)))
                   \cup Files(TgtRoot, (Notes :> n))),
       cfg |-> [o EXCEPT !.source = NestedRoot]]
        : s \in {0, 4}, two \in BOOLEAN, t \in {0, 1, 2}, n \in {0, 8},
          o \in Options({<<>>, Append(NestedRoot, F1)}, {FALSE}, {FALSE}, {TgtRoot}, BOOLEAN) }

\* the runs that stop early: two movies, maybe a third folder whose name
\* collides with the first, a video to replace in the target folder, two
\* stray entries in the target root, and maybe unlink refused
AbortScenarios ==
    { [fs |-> Tree(Dir(SrcRoot) \cup Dir(TgtRoot)
                   \cup Dir(Append(SrcRoot, F1))
                   \cup Files(Append(SrcRoot, F1), (sDC :> 1) @@ (sPlain :> 2))
                   \cup (IF dup
                         THEN Dir(Append(SrcRoot, F2))
                              \cup Files(Append(SrcRoot, F2), (sDC :> 3))
                         ELSE {})
                   \cup Dir(Append(SrcRoot, F3)) \cup Files(Append(SrcRoot, F3), (sOther :> 6))
                   \cup Dir(Append(TgtRoot, F1)) \cup Files(Append(TgtRoot, F1), (sPlain :> t))
                   \cup Dir(Append(TgtRoot, Old)) \cup Files(Append(TgtRoot, Old), (Clip :> 7))
                   \cup Files(TgtRoot, (Notes :> 8))),
       cfg |-> [o EXCEPT !.denied = d]]
        : dup \in BOOLEAN, t \in {0, 1, 2}, d \in {{}, {"unlink"}},
          o \in Options({<<>>}, {FALSE}, {FALSE}, {TgtRoot}, BOOLEAN) }

Init ==
    /\ \E sc \in Scenarios : fs = sc.fs /\ cfg = sc.cfg
    /\ pc = "idle"
    /\ run = 0
    /\ queue = <<>>
    /\ keys = {}
    /\ processed = <<>>
    /\ report = NoConf
    /\ result = "none"
    /\ oplog = <<>>
    /\ last = <<>>
    /\ interrupted = FALSE
    /\ fs0 = fs
    /\ fsRun = fs
    /\ summary = NoSummary
    /\ call = NoCall

FaultInit ==
    /\ \E sc \in FaultScenarios : fs = sc.fs /\ cfg = sc.cfg
    /\ pc = "idle"
    /\ run = 0
    /\ queue = <<>>
    /\ keys = {}
    /\ processed = <<>>
    /\ report = NoConf
    /\ result = "none"
    /\ oplog = <<>>
    /\ last = <<>>
    /\ interrupted = FALSE
    /\ fs0 = fs
    /\ fsRun = fs
    /\ summary = NoSummary
    /\ call = NoCall

NestedInit ==
    /\ \E sc \in NestedScenarios : fs = sc.fs /\ cfg = sc.cfg
    /\ pc = "idle"
    /\ run = 0
    /\ queue = <<>>
    /\ keys = {}
    /\ processed = <<>>
    /\ report = NoConf
    /\ result = "none"
    /\ oplog = <<>>
    /\ last = <<>>
    /\ interrupted = FALSE
    /\ fs0 = fs
    /\ fsRun = fs
    /\ summary = NoSummary
    /\ call = NoCall

AbortInit ==
    /\ \E sc \in AbortScenarios : fs = sc.fs /\ cfg = sc.cfg
    /\ pc = "idle"
    /\ run = 0
    /\ queue = <<>>
    /\ keys = {}
    /\ processed = <<>>
    /\ report = NoConf
    /\ result = "none"
    /\ oplog = <<>>
    /\ last = <<>>
    /\ interrupted = FALSE
    /\ fs0 = fs
    /\ fsRun = fs
    /\ summary = NoSummary
    /\ call = NoCall

AssetInit ==
    /\ \E sc \in AssetScenarios : fs = sc.fs /\ cfg = sc.cfg
    /\ pc = "idle"
    /\ run = 0
    /\ queue = <<>>
    /\ keys = {}
    /\ processed = <<>>
    /\ report = NoConf
    /\ result = "none"
    /\ oplog = <<>>
    /\ last = <<>>
    /\ interrupted = FALSE
    /\ fs0 = fs
    /\ fsRun = fs
    /\ summary = NoSummary
    /\ call = NoCall

\* ------------------------------------------------------------------------
\* Actions
\* ------------------------------------------------------------------------
\* sync is invoked: everything up to the first movie of the sequence
SyncStart ==
    /\ pc \in {"idle", "done"}
    /\ run < MaxRuns
    /\ \E entries \in ScanOrders(fs, cfg) :
         LET b == SyncBegin(fs, cfg, entries)
         IN  /\ fs' = b.fs
             /\ oplog' = b.ops
             /\ pc' = b.pc
             /\ result' = b.result
             /\ queue' = b.queue
             /\ keys' = b.keys
             /\ report' = b.report
    /\ run' = run + 1
    /\ processed' = <<>>
    /\ last' = <<>>
    /\ fs0' = IF run = 0 THEN fs ELSE fs0
    /\ fsRun' = fs
    /\ summary' = NoSummary
    /\ UNCHANGED <<cfg, interrupted, call>>

\* what sync does with the outcome res of process_movie: an exception that
\* left process_movie leaves sync as well; a partial run returns after its
\* one movie; a full run goes on with the next movie
MovieReturned(c, res) ==
    /\ fs' = res.fs
    /\ oplog' = oplog \o res.ops
    /\ last' = <<[c |-> c, pre |-> fs, res |-> res]>>
    /\ pc' = IF res.raised \/ cfg.partial # <<>> THEN "done" ELSE "movies"
    /\ result' = IF res.raised THEN "OSError"
                 ELSE IF cfg.partial # <<>> THEN "0" ELSE result
    /\ summary' = IF res.raised THEN summary
                  ELSE [movies  |-> summary.movies + 1,
                        updated |-> summary.updated + res.alinked + res.linked,
                        removed |-> summary.removed + res.aremoved + res.removed]

\* the next movie of the sequence is handed to process_movie, which completes
ProcessMovie ==
    /\ pc = "movies"
    /\ queue # <<>>
    /\ \E order \in VideoOrders(fs, queue[1]),
          idx \in InodeIndexChoices(fs, TargetPath(Ctx(cfg, queue[1]))) :
            MovieReturned(Ctx(cfg, queue[1]),
                          process_movie(fs, Ctx(cfg, queue[1]), order, idx))
    /\ processed' = Append(processed, queue[1])
    /\ queue' = Tail(queue)
    /\ UNCHANGED <<cfg, run, keys, report, interrupted, fs0, fsRun, call>>

\* the movie sequence is exhausted: stray top-level entries, then the summary
RootCleanup ==
    /\ pc = "movies"
    /\ queue = <<>>
    /\ LET res == root_cleanup(fs, cfg, keys)
       IN  /\ fs' = res.fs
           /\ oplog' = oplog \o res.ops
           /\ summary' = [summary EXCEPT !.removed = @ + res.removed]
    /\ pc' = "done"
    /\ result' = "0"
    /\ UNCHANGED <<cfg, run, queue, keys, processed, report, last, interrupted, fs0, fsRun, call>>

\* the first run is killed inside process_movie, after k of its operations
InterruptMovie ==
    /\ pc = "movies"
    /\ queue # <<>>
    /\ run = 1
    /\ LET c == Ctx(cfg, queue[1])
       IN  \E order \in VideoOrders(fs, queue[1]), idx \in InodeIndexChoices(fs, TargetPath(c)) :
             LET res == process_movie(fs, c, order, idx)
             IN  \E k \in 0..(Len(res.ops) - 1) :
                   /\ fs' = ApplyOps(fs, SubSeq(res.ops, 1, k))
                   /\ oplog' = oplog \o SubSeq(res.ops, 1, k)
    /\ pc' = "idle"
    /\ result' = "interrupted"
    /\ interrupted' = TRUE
    /\ queue' = <<>>
    /\ UNCHANGED <<cfg, run, keys, processed, report, last, fs0, fsRun, summary, call>>

\* the first run is killed inside the removal of the stray top-level entries
InterruptCleanup ==
    /\ pc = "movies"
    /\ queue = <<>>
    /\ run = 1
    /\ LET res == root_cleanup(fs, cfg, keys)
       IN  \E k \in 0..(Len(res.ops) - 1) :
             /\ fs' = ApplyOps(fs, SubSeq(res.ops, 1, k))
             /\ oplog' = oplog \o SubSeq(res.ops, 1, k)
    /\ pc' = "idle"
    /\ result' = "interrupted"
    /\ interrupted' = TRUE
    /\ UNCHANGED <<cfg, run, queue, keys, processed, report, last, fs0, fsRun, summary, call>>

Next ==
    \/ SyncStart
    \/ ProcessMovie
    \/ RootCleanup
    \/ InterruptMovie
    \/ InterruptCleanup

Spec == Init /\ [][Next]_vars

\* the same program on a file system that refuses one kind of operation
FaultSpec == FaultInit /\ [][Next]_vars

\* the runs that a name collision or a refused unlink stops early
AbortSpec == AbortInit /\ [][Next]_vars

\* the runs on a source library that lies inside the target root
NestedSpec == NestedInit /\ [][Next]_vars

\* the runs over a movie with assets and sidecar files
AssetSpec == AssetInit /\ [][Next]_vars

\* ------------------------------------------------------------------------
\* Strings.  For the naming functions a Python str is the sequence of its
\* characters; Nil is Python's None, which no string equals
\* ------------------------------------------------------------------------
Nil == <<"None">>

Digits == {"0", "1", "2", "3", "4", "5", "6", "7", "8", "9"}

LowerLetters == <<"a", "b", "c", "d", "e", "f", "g", "h", "i", "j", "k", "l", "m",
                  "n", "o", "p", "q", "r", "s", "t", "u", "v", "w", "x", "y", "z">>

UpperLetters == <<"A", "B", "C", "D", "E", "F", "G", "H", "I", "J", "K", "L", "M",
                  "N", "O", "P", "Q", "R", "S", "T", "U", "V", "W", "X", "Y", "Z">>

Letters == Range(LowerLetters) \cup Range(UpperLetters)

\* the regular expression class [\w\d]
WordChars == Letters \cup Digits \cup {"_"}

IndexIn(seq, ch) == CHOOSE i \in 1..Len(seq) : seq[i] = ch

\* str.upper and str.lower
UpperChar(ch) == IF ch \in Range(LowerLetters) THEN UpperLetters[IndexIn(LowerLetters, ch)] ELSE ch

LowerChar(ch) == IF ch \in Range(UpperLetters) THEN LowerLetters[IndexIn(UpperLetters, ch)] ELSE ch

upper(str) == [i \in 1..Len(str) |-> UpperChar(str[i])]

lower(str) == [i \in 1..Len(str) |-> LowerChar(str[i])]

\* str[i:] and str[:i], with TLA+ positions
From(str, i) == SubSeq(str, i, Len(str))

Upto(str, i) == SubSeq(str, 1, i)

\* sub occurs in str at position i
OccursAt(str, sub, i) ==
    i >= 1 /\ i + Len(sub) - 1 <= Len(str) /\ SubSeq(str, i, i + Len(sub) - 1) = sub

\* str.find(sub, start): the first position >= start, 0 when there is none
Find(str, sub, start) ==
    IF \E i \in start..Len(str) : OccursAt(str, sub, i)
    THEN CHOOSE i \in start..Len(str) :
            OccursAt(str, sub, i) /\ \A j \in start..(i - 1) : ~OccursAt(str, sub, j)
    ELSE 0

\* sub in str
Contains(str, sub) == Find(str, sub, 1) # 0

\* str.split(sep): occurrences taken from the left, without overlap
RECURSIVE split(_, _)
split(str, sep) ==
    IF Find(str, sep, 1) = 0 THEN <<str>>
    ELSE <<Upto(str, Find(str, sep, 1) - 1)>>
         \o split(From(str, Find(str, sep, 1) + Len(sep)), sep)

\* str.split(sep, 1)
split1(str, sep) ==
    IF Find(str, sep, 1) = 0 THEN <<str>>
    ELSE <<Upto(str, Find(str, sep, 1) - 1), From(str, Find(str, sep, 1) + Len(sep))>>

\* sep.join(parts)
RECURSIVE join(_, _)
join(sep, parts) ==
    IF parts = <<>> THEN <<>>
    ELSE IF Len(parts) = 1 THEN parts[1]
    ELSE parts[1] \o sep \o join(sep, Tail(parts))

\* str.lstrip(chars), str.rstrip(chars), str.strip() (the blank is the only
\* white space of the names)
RECURSIVE lstrip(_, _)
lstrip(str, chars) ==
    IF str # <<>> /\ str[1] \in chars THEN lstrip(Tail(str), chars) ELSE str

RECURSIVE rstrip(_, _)
rstrip(str, chars) ==
    IF str # <<>> /\ str[Len(str)] \in chars THEN rstrip(Upto(str, Len(str) - 1), chars) ELSE str

strip(str) == rstrip(lstrip(str, {" "}), {" "})

\* pathlib: PurePath.suffix and PurePath.stem of a file name
LastDot(name) ==
    IF \E i \in 1..Len(name) : name[i] = "."
    THEN CHOOSE i \in 1..Len(name) : name[i] = "." /\ \A j \in (i + 1)..Len(name) : name[j] # "."
    ELSE 0

PathSuffix(name) ==
    IF LastDot(name) > 1 /\ LastDot(name) < Len(name) THEN From(name, LastDot(name)) ELSE <<>>

PathStem(name) ==
    IF LastDot(name) > 1 /\ LastDot(name) < Len(name) THEN Upto(name, LastDot(name) - 1) ELSE name

\* ------------------------------------------------------------------------
\* library.py: MovieInfo, VideoInfo and RESOLUTION_PATTERN on strings
\* ------------------------------------------------------------------------
\* None in a set-valued field
NilSet == {Nil}

Movie(title, year, provider, movie_id) ==
    [title |-> title, year |-> year, provider |-> provider, movie_id |-> movie_id]

Video(extension, edition, resolution, tags, providers) ==
    [extension |-> extension, edition |-> edition, resolution |-> resolution,
     tags |-> tags, providers |-> providers]

\* the truth value of an optional string, and "x or set()" of an optional set
Truthy(x) == x # Nil /\ x # <<>>

OrEmpty(x) == IF x = NilSet THEN {} ELSE x

Str4k == <<"4", "k">>

StrBD == <<"B", "D">>

StrDVD == <<"D", "V", "D">>

Str2160p == <<"2", "1", "6", "0", "p">>

Str1080p == <<"1", "0", "8", "0", "p">>

\* \d{3,4}[pi]$ matched from the start of the word, letters as listed in pi
MatchesResolution(word, pi) ==
    /\ Len(word) \in {4, 5}
    /\ \A i \in 1..(Len(word) - 1) : word[i] \in Digits
    /\ word[Len(word)] \in pi

RESOLUTION_PATTERN(word) == MatchesResolution(word, {"p", "i"})

\* ------------------------------------------------------------------------
\* jellyfin.py on strings
\* ------------------------------------------------------------------------
\* JELLYFIN_ID_PATTERN.match(str): "[", letters, "id-", characters other than
\* "]", "]" at the start of str
JELLYFIN_ID_PATTERN(str) ==
    \E i \in 3..Len(str) :
        /\ str[1] = "["
        /\ \A j \in 2..(i - 1) : str[j] \in Letters
        /\ OccursAt(str, <<"i", "d", "-">>, i)
        /\ \E k \in (i + 4)..Len(str) :
              str[k] = "]" /\ \A j \in (i + 3)..(k - 1) : str[j] # "]"

\* prefix, optionally followed by "." or "-" and word characters up to the end:
\* 0 no match, 1 bare prefix, 2 prefix with a trailing tag
MatchesShorthand(word, prefix) ==
    IF word = prefix THEN 1
    ELSE IF /\ Len(word) >= Len(prefix) + 2
            /\ Upto(word, Len(prefix)) = prefix
            /\ word[Len(prefix) + 1] \in {".", "-"}
            /\ \A i \in (Len(prefix) + 2)..Len(word) : word[i] \in WordChars
    THEN 2
    ELSE 0

TrailingTag(word, prefix) ==
    IF MatchesShorthand(word, prefix) = 2 THEN {From(word, Len(prefix) + 2)} ELSE {}

\* SninerVariantParser._match_resolution: the first matching row of RES_MAP
match_resolution(word) ==
    IF MatchesShorthand(word, Str4k) # 0
    THEN [res |-> Str2160p, tags |-> TrailingTag(word, Str4k)]
    ELSE IF MatchesShorthand(word, StrBD) # 0
    THEN [res |-> Str1080p, tags |-> TrailingTag(word, StrBD)]
    ELSE IF MatchesShorthand(word, StrDVD) # 0
    THEN [res |-> Nil, tags |-> {StrDVD} \cup TrailingTag(word, StrDVD)]
    ELSE IF RESOLUTION_PATTERN(word) THEN [res |-> word, tags |-> {}]
    ELSE [res |-> Nil, tags |-> {}]

\* "res or tags"
Matched(m) == Truthy(m.res) \/ m.tags # {}

OptStr(str) == IF str = <<>> THEN Nil ELSE str

OptSet(set) == IF set = {} THEN NilSet ELSE set

\* what parse returns for the resolution match m and the edition text
Parsed(video, m, edition) ==
    Video(video.extension, OptStr(edition), m.res,
          OptSet(OrEmpty(video.tags) \cup m.tags), video.providers)

\* variant: when the first and the last word both match, the last word decides
SninerParse_LastWordFirst(variant, video) ==
    LET parts == split(variant, <<" ">>)
    IN  IF Len(parts) > 1 /\ Matched(match_resolution(parts[Len(parts)]))
        THEN Parsed(video, match_resolution(parts[Len(parts)]),
                    join(<<" ">>, Upto(parts, Len(parts) - 1)))
        ELSE IF Matched(match_resolution(parts[1]))
        THEN Parsed(video, match_resolution(parts[1]), join(<<" ">>, Tail(parts)))
        ELSE Parsed(video, match_resolution(parts[1]), variant)

\* SninerVariantParser.parse
SninerParse(variant, video) ==
    LET parts == split(variant, <<" ">>)
    IN  IF Matched(match_resolution(parts[1]))
        THEN Parsed(video, match_resolution(parts[1]), join(<<" ">>, Tail(parts)))
        ELSE IF Len(parts) > 1
        THEN IF Matched(match_resolution(parts[Len(parts)]))
             THEN Parsed(video, match_resolution(parts[Len(parts)]),
                         join(<<" ">>, Upto(parts, Len(parts) - 1)))
             ELSE Parsed(video, match_resolution(parts[Len(parts)]), variant)
        ELSE Parsed(video, match_resolution(parts[1]), variant)

\* SimpleVariantParser._tags_to_variant; tags is video.tags in the order the
\* set is iterated
RECURSIVE FirstShorthandTag(_)
FirstShorthandTag(tags) ==
    IF tags = <<>> THEN <<>>
    ELSE IF upper(tags[1]) \in {StrDVD, Str4k, StrBD} THEN <<upper(tags[1])>>
    ELSE FirstShorthandTag(Tail(tags))

SimpleTagsToVariant(video, tags) ==
    IF Truthy(video.resolution) THEN <<video.resolution>> ELSE FirstShorthandTag(tags)

\* variant: the resolution is written as it is, without the shorthands
tags_to_variant_Verbatim(video, tags) == SimpleTagsToVariant(video, tags)

\* SninerVariantParser._tags_to_variant
tags_to_variant(video, tags) ==
    LET variant == SimpleTagsToVariant(video, tags)
    IN  IF variant # <<>> /\ MatchesResolution(variant[1], {"p", "i", "P", "I"})
        THEN LET res == Upto(variant[1], Len(variant[1]) - 1)
             IN  IF res = <<"1", "0", "8", "0">> THEN <<StrBD>>
                 ELSE IF res = <<"2", "1", "6", "0">> THEN <<Str4k>>
                 ELSE IF res \in {<<"4", "8", "0">>, <<"5", "7", "6">>} THEN <<StrDVD>>
                 ELSE variant
        ELSE variant

\* SimpleVariantParser._providers_to_jellyfin; providers is video.providers in
\* the order the set is iterated
RECURSIVE providers_to_jellyfin(_, _)
providers_to_jellyfin(providers, mname) ==
    IF providers = <<>> THEN <<>>
    ELSE LET p == split1(providers[1], <<"-">>)
             tag == <<"[">> \o p[1] \o <<"i", "d", "-">> \o p[2] \o <<"]">>
         IN  (IF Contains(providers[1], <<"-">>) /\ ~Contains(lower(mname), lower(tag))
              THEN <<tag>> ELSE <<>>)
             \o providers_to_jellyfin(Tail(providers), mname)

\* JellyfinLibrary.movie_name
JellyfinMovieName(movie) ==
    join(<<" ">>,
         <<movie.title>>
         \o (IF Truthy(movie.year) THEN <<<<"(">> \o movie.year \o <<")">>>> ELSE <<>>)
         \o (IF Truthy(movie.provider) /\ Truthy(movie.movie_id)
             THEN <<<<"[">> \o movie.provider \o <<"i", "d", "-">> \o movie.movie_id \o <<"]">>>>
             ELSE <<>>))

\* SimpleVariantParser.video_name behind JellyfinLibrary.video_name; tags and
\* providers are the two sets in the order they are iterated
JellyfinVideoName(movie, video, tags, providers) ==
    LET variant_parts == tags_to_variant(video, tags)
                         \o (IF Truthy(video.edition) THEN <<video.edition>> ELSE <<>>)
    IN  join(<<" ">>,
             <<JellyfinMovieName(movie)>>
             \o providers_to_jellyfin(providers, JellyfinMovieName(movie))
             \o (IF variant_parts # <<>>
                 THEN <<<<"-", " ">> \o join(<<" ">>, variant_parts)>> ELSE <<>>))
        \o video.extension

\* JellyfinLibrary.parse_video_path, on the file name of the path
JellyfinParseVideoPath(name) ==
    LET video == Video(PathSuffix(name), Nil, Nil, NilSet, NilSet)
        parts == split(PathStem(name), <<" ", "-", " ">>)
    IN  IF Len(parts) > 1 /\ ~JELLYFIN_ID_PATTERN(parts[Len(parts)])
        THEN SninerParse(rstrip(lstrip(strip(parts[Len(parts)]), {"["}), {"]"}), video)
        ELSE video

\* ------------------------------------------------------------------------
\* plex.py on strings
\* ------------------------------------------------------------------------
PLEX_METADATA_PROVIDER == {<<"i", "m", "d", "b">>, <<"t", "m", "d", "b">>, <<"t", "v", "d", "b">>}

StrEdition == <<"e", "d", "i", "t", "i", "o", "n">>

\* the order of the characters of the names by code point
CodePoints ==
    <<" ", "(", ")", "-", ".">> \o
    <<"0", "1", "2", "3", "4", "5", "6", "7", "8", "9">> \o UpperLetters
    \o <<"[", "]", "_">> \o LowerLetters \o <<"{", "}">>

\* str < str as Python compares strings
RECURSIVE StrLess(_, _)
StrLess(a, b) ==
    IF b = <<>> THEN FALSE
    ELSE IF a = <<>> THEN TRUE
    ELSE IF a[1] # b[1] THEN IndexIn(CodePoints, a[1]) < IndexIn(CodePoints, b[1])
    ELSE StrLess(Tail(a), Tail(b))

\* sorted(list(set))
sorted(set) ==
    CHOOSE seq \in Perms(set) : \A i \in 1..(Len(seq) - 1) : StrLess(seq[i], seq[i + 1])

\* str.replace(blk, "")
RECURSIVE Without(_, _)
Without(str, blk) ==
    IF Find(str, blk, 1) = 0 THEN str
    ELSE Upto(str, Find(str, blk, 1) - 1) \o Without(From(str, Find(str, blk, 1) + Len(blk)), blk)

\* the position of the first close at or after position i, 0 when there is none
FirstClose(str, close, i) == Find(str, <<close>>, i)

\* the end of the maximal run of letters that starts at position i (i - 1 when
\* str[i] is no letter)
RECURSIVE LettersEnd(_, _)
LettersEnd(str, i) ==
    IF i <= Len(str) /\ str[i] \in Letters THEN LettersEnd(str, i + 1) ELSE i - 1

\* PLEX_META_BLOCK_PATTERN matches at position i: "{", letters, "-", at least
\* one character other than "}", "}"
MetaBlockAt(str, i) ==
    /\ i <= Len(str) /\ str[i] = "{"
    /\ LettersEnd(str, i + 1) >= i + 1
    /\ LettersEnd(str, i + 1) + 1 <= Len(str) /\ str[LettersEnd(str, i + 1) + 1] = "-"
    /\ FirstClose(str, "}", LettersEnd(str, i + 1) + 2) > LettersEnd(str, i + 1) + 2

\* PLEX_META_BLOCK_PATTERN.findall(str), scanning from position i
RECURSIVE parse_meta_blocks(_, _)
parse_meta_blocks(str, i) ==
    IF i > Len(str) THEN <<>>
    ELSE IF MetaBlockAt(str, i)
    THEN LET k == LettersEnd(str, i + 1)
             e == FirstClose(str, "}", k + 2)
         IN  <<[key |-> SubSeq(str, i + 1, k), val |-> SubSeq(str, k + 2, e - 1),
                blk |-> SubSeq(str, i, e)]>>
             \o parse_meta_blocks(str, e + 1)
    ELSE parse_meta_blocks(str, i + 1)

\* PLEX_META_INFO_PATTERN matches at position i: "[", at least one character
\* other than "]", "]"
InfoBlockAt(str, i) ==
    /\ i <= Len(str) /\ str[i] = "["
    /\ FirstClose(str, "]", i + 1) > i + 1

\* PLEX_META_INFO_PATTERN.findall(str), scanning from position i
RECURSIVE parse_info_blocks(_, _)
parse_info_blocks(str, i) ==
    IF i > Len(str) THEN <<>>
    ELSE IF InfoBlockAt(str, i)
    THEN LET e == FirstClose(str, "]", i + 1)
         IN  <<[info |-> SubSeq(str, i + 1, e - 1), blk |-> SubSeq(str, i, e)]>>
             \o parse_info_blocks(str, e + 1)
    ELSE parse_info_blocks(str, i + 1)

\* parse_video_path lines 112-117: the loop over the meta blocks, on the
\* record [edition, providers, leftover]
RECURSIVE MetaLoop(_, _)
MetaLoop(acc, blocks) ==
    IF blocks = <<>> THEN acc
    ELSE LET b  == blocks[1]
             a1 == IF lower(b.key) = StrEdition THEN [acc EXCEPT !.edition = b.val]
                   ELSE IF lower(b.key) \in PLEX_METADATA_PROVIDER
                   THEN [acc EXCEPT !.providers = @ \cup {lower(b.key) \o <<"-">> \o b.val}]
                   ELSE acc
         IN  MetaLoop([a1 EXCEPT !.leftover = Without(@, b.blk)], Tail(blocks))

\* variant: every info block is a tag, none is the resolution
RECURSIVE InfoLoop_TagsOnly(_, _)
InfoLoop_TagsOnly(acc, blocks) ==
    IF blocks = <<>> THEN acc
    ELSE InfoLoop_TagsOnly([acc EXCEPT !.tags = @ \cup {strip(blocks[1].info)}], Tail(blocks))

\* parse_video_path lines 122-128: the loop over the info blocks, on the
\* record [resolution, tags]
RECURSIVE InfoLoop(_, _)
InfoLoop(acc, blocks) ==
    IF blocks = <<>> THEN acc
    ELSE InfoLoop(IF RESOLUTION_PATTERN(strip(blocks[1].info))
                  THEN [acc EXCEPT !.resolution = strip(blocks[1].info)]
                  ELSE [acc EXCEPT !.tags = @ \cup {strip(blocks[1].info)}],
                  Tail(blocks))

\* what parse_video_path returns after the two loops
PlexParsed(extension, meta, info) ==
    Video(extension, meta.edition, info.resolution, OptSet(info.tags), OptSet(meta.providers))

\* PlexLibrary.parse_video_path, on the file name of the path
PlexParseVideoPath(name) ==
    PlexParsed(PathSuffix(name),
               MetaLoop([edition |-> Nil, providers |-> {}, leftover |-> PathStem(name)],
                        parse_meta_blocks(PathStem(name), 1)),
               InfoLoop([resolution |-> Nil, tags |-> {}],
                        parse_info_blocks(
                            MetaLoop([edition |-> Nil, providers |-> {}, leftover |-> PathStem(name)],
                                     parse_meta_blocks(PathStem(name), 1)).leftover, 1)))

\* PlexLibrary.movie_name
PlexMovieName(movie) ==
    join(<<" ">>,
         <<movie.title>>
         \o (IF Truthy(movie.year) THEN <<<<"(">> \o movie.year \o <<")">>>> ELSE <<>>)
         \o (IF Truthy(movie.provider) /\ Truthy(movie.movie_id)
             THEN <<<<"{">> \o movie.provider \o <<"-">> \o movie.movie_id \o <<"}">>>>
             ELSE <<>>))

\* variant: the movie's own provider id is not skipped
RECURSIVE ProviderParts_KeepOwn(_, _)
ProviderParts_KeepOwn(providers, existing_id) ==
    IF providers = <<>> THEN <<>>
    ELSE <<<<"{">> \o providers[1] \o <<"}">>>> \o ProviderParts_KeepOwn(Tail(providers), existing_id)

\* video_name lines 39-44: one "{provider}" part for each provider of the
\* video but the movie's own
RECURSIVE ProviderParts(_, _)
ProviderParts(providers, existing_id) ==
    IF providers = <<>> THEN <<>>
    ELSE (IF providers[1] = existing_id THEN <<>>
          ELSE <<<<"{">> \o providers[1] \o <<"}">>>>)
         \o ProviderParts(Tail(providers), existing_id)

\* video_name line 49-50: "".join of "[tag]" over the tags as iterated
RECURSIVE TagParts(_)
TagParts(tags) ==
    IF tags = <<>> THEN <<>>
    ELSE <<"[">> \o tags[1] \o <<"]">> \o TagParts(Tail(tags))

\* PlexLibrary.video_name; tags is video.tags in the order the set is iterated
PlexVideoName(movie, video, tags) ==
    join(<<" ">>,
         <<PlexMovieName(movie)>>
         \o ProviderParts(sorted(OrEmpty(video.providers)),
                          IF Truthy(movie.provider) /\ Truthy(movie.movie_id)
                          THEN movie.provider \o <<"-">> \o movie.movie_id ELSE Nil)
         \o (IF Truthy(video.edition)
             THEN <<<<"{">> \o StrEdition \o <<"-">> \o video.edition \o <<"}">>>> ELSE <<>>)
         \o (IF tags # <<>> THEN <<TagParts(tags)>> ELSE <<>>)
         \o (IF Truthy(video.resolution)
             THEN <<<<"[">> \o video.resolution \o <<"]">>>> ELSE <<>>))
    \o video.extension

\* ------------------------------------------------------------------------
\* parse_movie_path of both libraries on strings
\* ------------------------------------------------------------------------
\* parse_movie_path returns None
NoMovieInfo == Movie(Nil, Nil, Nil, Nil)

\* the first position at or after i that holds no blank (Len + 1 at the end)
RECURSIVE SkipSpaces(_, _)
SkipSpaces(str, i) ==
    IF i <= Len(str) /\ str[i] = " " THEN SkipSpaces(str, i + 1) ELSE i

\* \((\d{4})\) at position i
YearAt(str, i) ==
    /\ i >= 1 /\ i + 5 <= Len(str)
    /\ str[i] = "(" /\ str[i + 5] = ")"
    /\ \A j \in (i + 1)..(i + 4) : str[j] \in Digits

\* \[([a-zA-Z]+id-[^\]]+)\] at position i: the position of the closing
\* bracket, 0 when the pattern does not match there
IdBlockEnd(str, i) ==
    IF /\ i >= 1 /\ i <= Len(str) /\ str[i] = "["
       /\ LettersEnd(str, i + 1) >= i + 3
       /\ SubSeq(str, LettersEnd(str, i + 1) - 1, LettersEnd(str, i + 1)) = <<"i", "d">>
       /\ LettersEnd(str, i + 1) + 1 <= Len(str)
       /\ str[LettersEnd(str, i + 1) + 1] = "-"
       /\ FirstClose(str, "]", LettersEnd(str, i + 1) + 2) > LettersEnd(str, i + 1) + 2
    THEN FirstClose(str, "]", LettersEnd(str, i + 1) + 2)
    ELSE 0

\* what follows the title in the five patterns, from position p on: blanks
\* and the year (patterns 1-3), then the id block after " - " (pattern 1) or
\* after blanks (pattern 2), or the end of the name (pattern 3); blanks and the
\* id block (pattern 4); the end of the name (pattern 5)
YearPos(str, p) == SkipSpaces(str, p)

HasYear(str, p) == YearPos(str, p) > p /\ YearAt(str, YearPos(str, p))

DashIdPos(str, r) == SkipSpaces(str, SkipSpaces(str, r) + 1)

IdPos(str, k, p) ==
    IF k = 1 THEN DashIdPos(str, YearPos(str, p) + 6)
    ELSE IF k = 2 THEN SkipSpaces(str, YearPos(str, p) + 6)
    ELSE SkipSpaces(str, p)

RestMatches(str, k, p) ==
    IF k = 1
    THEN /\ HasYear(str, p)
         /\ SkipSpaces(str, YearPos(str, p) + 6) > YearPos(str, p) + 6
         /\ SkipSpaces(str, YearPos(str, p) + 6) <= Len(str)
         /\ str[SkipSpaces(str, YearPos(str, p) + 6)] = "-"
         /\ IdPos(str, 1, p) > SkipSpaces(str, YearPos(str, p) + 6) + 1
         /\ IdBlockEnd(str, IdPos(str, 1, p)) # 0
    ELSE IF k = 2
    THEN /\ HasYear(str, p)
         /\ IdPos(str, 2, p) > YearPos(str, p) + 6
         /\ IdBlockEnd(str, IdPos(str, 2, p)) # 0
    ELSE IF k = 3
    THEN HasYear(str, p) /\ YearPos(str, p) + 5 = Len(str)
    ELSE IF k = 4
    THEN IdPos(str, 4, p) > p /\ IdBlockEnd(str, IdPos(str, 4, p)) # 0
    ELSE p = Len(str) + 1

\* the length of the title group (.+? takes the shortest title) when pattern
\* k matches the name, 0 when it does not
TitleLen(str, k) ==
    IF \E t \in 1..Len(str) : RestMatches(str, k, t + 1)
    THEN CHOOSE t \in 1..Len(str) :
            RestMatches(str, k, t + 1) /\ \A u \in 1..(t - 1) : ~RestMatches(str, k, u + 1)
    ELSE 0

\* variant: the patterns are tried from the least specific to the most specific
FirstPattern_TitleOnlyFirst(str) ==
    IF \E k \in 1..5 : TitleLen(str, k) # 0
    THEN CHOOSE k \in 1..5 : TitleLen(str, k) # 0 /\ \A j \in (k + 1)..5 : TitleLen(str, j) = 0
    ELSE 0

\* the first of JELLYFIN_MOVIE_PATTERNS that matches, 0 when none does
FirstPattern(str) ==
    IF \E k \in 1..5 : TitleLen(str, k) # 0
    THEN CHOOSE k \in 1..5 : TitleLen(str, k) # 0 /\ \A j \in 1..(k - 1) : TitleLen(str, j) = 0
    ELSE 0

\* the groups of pattern k with title length t: year and provider_id
YearGroup(str, k, t) ==
    IF k \in {1, 2, 3} THEN SubSeq(str, YearPos(str, t + 1) + 1, YearPos(str, t + 1) + 4) ELSE Nil

ProviderIdGroup(str, k, t) ==
    IF k \in {1, 2, 4}
    THEN SubSeq(str, IdPos(str, k, t + 1) + 1, IdBlockEnd(str, IdPos(str, k, t + 1)) - 1)
    ELSE Nil

\* lines 195-199: provider and movie id from the provider_id group
JellyfinMovieInfo(title, year, provider_id) ==
    IF Truthy(provider_id)
    THEN Movie(strip(title), year,
               rstrip(split1(provider_id, <<"-">>)[1], {"i", "d"}),
               split1(provider_id, <<"-">>)[2])
    ELSE Movie(strip(title), year, Nil, Nil)

\* JellyfinLibrary.parse_movie_path, on the name of the folder
JellyfinParseMoviePathBy(name, k) ==
    IF k = 0 THEN NoMovieInfo
    ELSE JellyfinMovieInfo(Upto(name, TitleLen(name, k)),
                           YearGroup(name, k, TitleLen(name, k)),
                           ProviderIdGroup(name, k, TitleLen(name, k)))

JellyfinParseMoviePath(name) == JellyfinParseMoviePathBy(name, FirstPattern(name))

\* re.sub(r"\s+", " ", str)
RECURSIVE CollapseSpaces(_)
CollapseSpaces(str) ==
    IF str = <<>> THEN <<>>
    ELSE IF str[1] = " " THEN <<" ">> \o CollapseSpaces(From(str, SkipSpaces(str, 1)))
    ELSE <<str[1]>> \o CollapseSpaces(Tail(str))

\* variant: a block with an unknown key is taken as the provider as well
RECURSIVE MovieMetaLoop_AnyKey(_, _)
MovieMetaLoop_AnyKey(acc, blocks) ==
    IF blocks = <<>> THEN acc
    ELSE MovieMetaLoop_AnyKey(
             [provider |-> strip(lower(blocks[1].key)), movie_id |-> strip(blocks[1].val),
              leftover |-> Without(acc.leftover, blocks[1].blk)],
             Tail(blocks))

\* PlexLibrary.parse_movie_path lines 71-76: the loop over the meta blocks, on
\* the record [provider, movie_id, leftover]
RECURSIVE MovieMetaLoop(_, _)
MovieMetaLoop(acc, blocks) ==
    IF blocks = <<>> THEN acc
    ELSE MovieMetaLoop(
             IF lower(blocks[1].key) \in PLEX_METADATA_PROVIDER
             THEN [provider |-> strip(lower(blocks[1].key)), movie_id |-> strip(blocks[1].val),
                   leftover |-> Without(acc.leftover, blocks[1].blk)]
             ELSE [acc EXCEPT !.leftover = Without(@, blocks[1].blk)],
             Tail(blocks))

\* lines 79-80: every info block is removed from the leftover
RECURSIVE WithoutAll(_, _)
WithoutAll(str, blocks) ==
    IF blocks = <<>> THEN str
    ELSE WithoutAll(Without(str, blocks[1].blk), Tail(blocks))

\* PLEX_MOVIE_PATTERN.match(str): the length of the shortest title that is
\* followed by blanks and "(year)", 0 when there is none
PlexTitleLen(str) ==
    IF \E t \in 1..Len(str) : HasYear(str, t + 1)
    THEN CHOOSE t \in 1..Len(str) :
            HasYear(str, t + 1) /\ \A u \in 1..(t - 1) : ~HasYear(str, u + 1)
    ELSE 0

\* lines 87-103: title and year from the cleaned leftover, None without title
PlexMovieInfo(leftover, provider, movie_id) ==
    IF PlexTitleLen(leftover) # 0
    THEN IF strip(Upto(leftover, PlexTitleLen(leftover))) = <<>> THEN NoMovieInfo
         ELSE Movie(strip(Upto(leftover, PlexTitleLen(leftover))),
                    SubSeq(leftover, YearPos(leftover, PlexTitleLen(leftover) + 1) + 1,
                           YearPos(leftover, PlexTitleLen(leftover) + 1) + 4),
                    provider, movie_id)
    ELSE IF leftover = <<>> THEN NoMovieInfo
    ELSE Movie(leftover, Nil, provider, movie_id)

PlexMovieParsed(meta) ==
    PlexMovieInfo(strip(CollapseSpaces(WithoutAll(meta.leftover,
                                                  parse_info_blocks(meta.leftover, 1)))),
                  meta.provider, meta.movie_id)

\* PlexLibrary.parse_movie_path, on the name of the folder
PlexParseMoviePath(name) ==
    PlexMovieParsed(MovieMetaLoop([provider |-> Nil, movie_id |-> Nil, leftover |-> name],
                                  parse_meta_blocks(name, 1)))

\* ------------------------------------------------------------------------
\* Direct calls of the library functions
\* ------------------------------------------------------------------------
\* the trees utils.remove is called on, and the paths it is called with
RemoveTrees ==
    { Tree(Dir(TgtRoot) \cup Dir(Append(TgtRoot, F1)) \cup Files(Append(TgtRoot, F1), f)
           \cup Files(TgtRoot, (Notes :> n)))
        : f \in [{tDC, tDCsrt} -> {0, 1}], n \in {0, 8} }

RemovePaths ==
    {Append(TgtRoot, F1), Append(TgtRoot, Notes), Append(Append(TgtRoot, F1), tDC)}

\* the MovieInfo values the naming functions are called with
StrImdb == <<"i", "m", "d", "b">>

StrTt1 == <<"t", "t", "1">>

CallMovies ==
    { Movie(title, year, id[1], id[2])
        : title \in {<<"M">>, <<"A", " ", "-", " ", "B">>},
          year \in {Nil, <<"2", "0", "0", "0">>},
          id \in {<<Nil, Nil>>, <<StrImdb, StrTt1>>} }

\* the VideoInfo values the naming functions are called with: values a parser
\* can return (no empty string, no empty set)
StrCut == <<"C", "u", "t">>

CallEditions == {Nil, StrCut, Str4k \o <<" ">> \o StrCut}

CallResolutions ==
    {Nil, Str2160p, Str1080p, <<"7", "2", "0", "p">>, <<"5", "7", "6", "p">>,
     <<"4", "8", "0", "p">>}

CallTags == {NilSet, {StrDVD}, {<<"x">>}, {StrDVD, <<"x">>}, {<<"7", "2", "0", "p">>}}

CallProviders ==
    {NilSet, {StrImdb \o <<"-">> \o StrTt1},
     {StrImdb \o <<"-">> \o StrTt1, <<"t", "m", "d", "b", "-", "5">>}}

CallVideos ==
    { Video(<<".", "m", "k", "v">>, edition, resolution, tags, providers)
        : edition \in CallEditions, resolution \in CallResolutions,
          tags \in CallTags, providers \in CallProviders }

\* the file names parse_video_path is called with: a Jellyfin name is the
\* title, " - " and up to MaxWords variant words
MaxWords == 3

VariantWords ==
    {Str4k, StrBD, StrDVD, <<"7", "2", "0", "p">>, StrCut,
     Str4k \o <<"-">> \o Str2160p, StrDVD \o <<".">> \o <<"x">>}

JellyfinNames ==
    { <<"M", " ", "-", " ">> \o join(<<" ">>, words) \o <<".", "m", "k", "v">>
        : words \in UNION {[1..n -> VariantWords] : n \in 1..MaxWords} }
    \cup { <<"M">> \o variant \o suffix
             : variant \in {<<>>, <<" ", "-", " ">> \o Str4k},
               suffix \in {<<".", "M", "K", "V">>, <<".", "M", "p", "4">>, <<".", "t", "x", "t">>} }

\* a Plex name is the title and up to MaxBlocks blocks
MaxBlocks == 2

PlexBlocks ==
    {<<" ", "[">> \o Str2160p \o <<"]">>, <<" ", "[">> \o StrDVD \o <<"]">>,
     <<"[", " ", "7", "2", "0", "p", " ", "]">>,
     <<" ", "{">> \o StrEdition \o <<"-">> \o StrCut \o <<"}">>,
     <<" ", "{">> \o StrImdb \o <<"-">> \o StrTt1 \o <<"}">>}

PlexNames ==
    { <<"M">> \o join(<<>>, blocks) \o <<".", "m", "k", "v">>
        : blocks \in UNION {[1..n -> PlexBlocks] : n \in 0..MaxBlocks} }
    \cup { <<"M">> \o block \o suffix
             : block \in {<<>>, <<" ", "[">> \o Str2160p \o <<"]">>},
               suffix \in {<<".", "M", "K", "V">>, <<".", "M", "p", "4">>, <<".", "t", "x", "t">>} }

\* the folder names parse_movie_path is called with: a Jellyfin folder is a
\* title, a year part, an id part and a tail, each of them possibly empty
StrYear == <<"(", "2", "0", "0", "0", ")">>

JellyfinIdBlocks ==
    {<<"[">> \o StrImdb \o <<"i", "d", "-">> \o StrTt1 \o <<"]">>,
     <<"[", "d", "i", "d", "-", "5", "]">>,
     <<"[", "k", "i", "d", "i", "d", "-", "5", "]">>,
     <<"[", "I", "M", "D", "B", "I", "D", "-", "5", "]">>,
     <<"[", "i", "d", "-", "5", "]">>,
     <<"[", "x", "i", "d", "-", "]">>}

JellyfinFolders ==
    { title \o year \o id \o tail
        : title \in {<<>>, <<"M">>, <<"A", " ", "-", " ", "B">>},
          year \in {<<>>, StrYear, <<" ">> \o StrYear, <<" ", " ">> \o StrYear,
                    <<" ", "(", "2", "0", "0", ")">>},
          id \in {<<>>} \cup {sep \o b : sep \in {<<>>, <<" ">>, <<" ", "-", " ">>, <<"-", " ">>},
                                         b \in JellyfinIdBlocks},
          tail \in {<<>>, <<" ">>, <<" ", "x">>} }

\* a Plex folder is up to MaxPieces pieces in any order: the title, the year,
\* {key-value} blocks and [label] blocks
MaxPieces == 3

PlexPieces ==
    {<<"M">>, <<" ">> \o StrYear, StrYear,
     <<" ", "{">> \o StrImdb \o <<"-">> \o StrTt1 \o <<"}">>,
     <<"{", "T", "m", "D", "b", "-", "5", "}">>,
     <<" ", "{", "f", "o", "o", "-", "1", "}">>,
     <<" ", "{">> \o StrImdb \o <<"-", " ", "}">>,
     <<" ", "{", "b", "a", "d", "}">>,
     <<" ", "[", "x", "]">>}

PlexFolderPieces == UNION {[1..n -> PlexPieces] : n \in 0..MaxPieces}

\* a source movie folder and a video in it, in the Jellyfin convention: the
\* title, the year, the id block (after a blank or after " - "), and the
\* variant: a resolution token before or after the edition
MkvSuffix == <<".", "m", "k", "v">>

JellyfinIds == {<<Nil, Nil>>, <<StrImdb, StrTt1>>, <<<<"k", "i", "d">>, <<"5">>>>}

JellyfinTokens == {Nil, Str4k, StrBD, StrDVD}

JellyfinFolderOf(title, year, id, dash) ==
    title \o <<" ", "(">> \o year \o <<")">>
    \o (IF id[1] = Nil THEN <<>>
        ELSE (IF dash THEN <<" ", "-", " ">> ELSE <<" ">>)
             \o <<"[">> \o id[1] \o <<"i", "d", "-">> \o id[2] \o <<"]">>)

VariantOfWords(token, edition, first) ==
    join(<<" ">>, IF first
                  THEN (IF token = Nil THEN <<>> ELSE <<token>>)
                       \o (IF edition = Nil THEN <<>> ELSE <<edition>>)
                  ELSE (IF edition = Nil THEN <<>> ELSE <<edition>>)
                       \o (IF token = Nil THEN <<>> ELSE <<token>>))

JellyfinPairs ==
    { [kind |-> "pair", conv |-> "jellyfin",
       title |-> title, year |-> <<"2", "0", "0", "0">>, id |-> id, token |-> token,
       edition |-> edition,
       folder |-> JellyfinFolderOf(title, <<"2", "0", "0", "0">>, id, dash),
       name |-> JellyfinFolderOf(title, <<"2", "0", "0", "0">>, id, dash)
                \o (IF token = Nil /\ edition = Nil THEN <<>>
                    ELSE <<" ", "-", " ">> \o VariantOfWords(token, edition, first))
                \o MkvSuffix]
        : title \in {<<"M">>, <<"A", " ", "-", " ", "B">>},
          id \in JellyfinIds, dash \in BOOLEAN, token \in JellyfinTokens,
          edition \in {Nil, StrCut}, first \in BOOLEAN }

\* a source movie folder and a video in it, in the Plex convention: the name
\* of the folder and up to MaxBlocks blocks in any order: an edition, a
\* resolution, a label, a block with an unknown key, a malformed block
StrBad == <<"b", "a", "d">>

StrFoo == <<"f", "o", "o">>

PlexPairBlocks ==
    {[kind |-> "edition", val |-> StrCut,
      text |-> <<" ", "{">> \o StrEdition \o <<"-">> \o StrCut \o <<"}">>],
     [kind |-> "resolution", val |-> Str2160p, text |-> <<" ", "[">> \o Str2160p \o <<"]">>],
     [kind |-> "resolution", val |-> Str1080p, text |-> <<"[">> \o Str1080p \o <<"]">>],
     [kind |-> "resolution", val |-> <<"7", "2", "0", "p">>, text |-> <<" ", "[", "7", "2", "0", "p", "]">>],
     [kind |-> "label", val |-> StrDVD, text |-> <<"[">> \o StrDVD \o <<"]">>],
     [kind |-> "label", val |-> StrBD, text |-> <<" ", "[">> \o StrBD \o <<"]">>],
     [kind |-> "label", val |-> <<"x">>, text |-> <<" ", "[", "x", "]">>],
     [kind |-> "unknown", val |-> StrFoo, text |-> <<" ", "{">> \o StrFoo \o <<"-", "1", "}">>],
     [kind |-> "malformed", val |-> StrBad, text |-> <<" ", "{">> \o StrBad \o <<"}">>]}

PlexFolderOf(title, year, id) ==
    title \o <<" ", "(">> \o year \o <<")">>
    \o (IF id[1] = Nil THEN <<>> ELSE <<" ", "{">> \o id[1] \o <<"-">> \o id[2] \o <<"}">>)

PlexPairs ==
    { [kind |-> "pair", conv |-> "plex",
       title |-> <<"M">>, year |-> <<"2", "0", "0", "0">>, id |-> id, blocks |-> blocks,
       folder |-> PlexFolderOf(<<"M">>, <<"2", "0", "0", "0">>, id),
       name |-> PlexFolderOf(<<"M">>, <<"2", "0", "0", "0">>, id)
                \o join(<<>>, [i \in 1..Len(blocks) |-> blocks[i].text]) \o MkvSuffix]
        : id \in {<<Nil, Nil>>, <<StrImdb, StrTt1>>},
          blocks \in UNION {[1..n -> PlexPairBlocks] : n \in 0..MaxBlocks} }

\* the libraries scan is called on: the entries below the root, each with
\* its path from the root and its type: a movie folder, two folders with
\* names only made of blocks, a plain file and a symlink to a directory with
\* the names of movies, and a directory inside the movie folder
LibraryEntries ==
    {[path |-> <<<<"M", " ">> \o StrYear>>, type |-> "dir"],
     [path |-> <<<<"[", "x", "]">>>>, type |-> "dir"],
     [path |-> <<<<"{">> \o StrImdb \o <<"-">> \o StrTt1 \o <<"}">>>>, type |-> "dir"],
     [path |-> <<<<"N", " ">> \o StrYear>>, type |-> "file"],
     [path |-> <<<<"L", " ">> \o StrYear>>, type |-> "symlink"],
     [path |-> <<<<"M", " ">> \o StrYear, <<"E", " ">> \o StrYear>>, type |-> "dir"]}

Libraries ==
    { tree \in SUBSET LibraryEntries :
        \A e \in tree : Len(e.path) = 2 => \E d \in tree : d.path = <<e.path[1]>> }

\* ---- the source trees the library type is determined on ----
\* an entry as os.scandir returns it, and under a directory what scanning it
\* gives: the entries in listing order, or OSError (ok is FALSE)
NoDir == [ok |-> TRUE, entries |-> <<>>]

FileEntry(name) == [name |-> name, type |-> "file", dir |-> NoDir]

DirEntry(name, ok, entries) == [name |-> name, type |-> "dir", dir |-> [ok |-> ok, entries |-> entries]]

\* "M (2000) - DC.mkv", "M (2000) [1080p].mkv", "M (2000) [x].mkv",
\* "M [IMDBID-tt1].mkv", "M {imdb-tt1}.mkv", "M (2000).MKV",
\* "A - B (2000).mkv" and "M (2000) - DC.txt"
DetectNames ==
    {<<"M", " ", "(", "2", "0", "0", "0", ")", " ", "-", " ", "D", "C", ".", "m", "k", "v">>,
     <<"M", " ", "(", "2", "0", "0", "0", ")", " ", "[", "1", "0", "8", "0", "p", "]", ".", "m", "k", "v">>,
     <<"M", " ", "(", "2", "0", "0", "0", ")", " ", "[", "x", "]", ".", "m", "k", "v">>,
     <<"M", " ", "[", "I", "M", "D", "B", "I", "D", "-", "t", "t", "1", "]", ".", "m", "k", "v">>,
     <<"M", " ", "{", "i", "m", "d", "b", "-", "t", "t", "1", "}", ".", "m", "k", "v">>,
     <<"M", " ", "(", "2", "0", "0", "0", ")", ".", "M", "K", "V">>,
     <<"A", " ", "-", " ", "B", " ", "(", "2", "0", "0", "0", ")", ".", "m", "k", "v">>,
     <<"M", " ", "(", "2", "0", "0", "0", ")", " ", "-", " ", "D", "C", ".", "t", "x", "t">>}

\* the listings of at most MaxListed files without a repeated name
MaxListed == 2

DetectListings ==
    UNION { {l \in [1..n -> DetectNames] : \A i, j \in 1..n : l[i] = l[j] => i = j}
              : n \in 0..MaxListed }

Listed(names) == [i \in 1..Len(names) |-> FileEntry(names[i])]

\* the folder "D" of a tree: none, or listed first or last in the root, with
\* no file or one, readable or not, or a symlink of that name
DetectFolders ==
    { DirEntry(<<"D">>, ok, Listed(l)) : ok \in BOOLEAN, l \in {<<>>} \cup {<<n>> : n \in DetectNames} }
    \cup {[name |-> <<"D">>, type |-> "symlink", dir |-> NoDir]}

SmallTrees ==
    { [ok |-> TRUE, entries |-> Listed(l)] : l \in DetectListings }
    \cup { [ok |-> TRUE, entries |-> <<d>> \o Listed(l)] : l \in DetectListings, d \in DetectFolders }
    \cup { [ok |-> TRUE, entries |-> Listed(l) \o <<d>>] : l \in DetectListings, d \in DetectFolders }
    \cup { [ok |-> FALSE, entries |-> <<>>] }

\* the decimal digits of a number
DigitChars == <<"0", "1", "2", "3", "4", "5", "6", "7", "8", "9">>

RECURSIVE DecimalStr(_)
DecimalStr(n) ==
    IF n < 10 THEN <<DigitChars[n + 1]>> ELSE DecimalStr(n \div 10) \o <<DigitChars[(n % 10) + 1]>>

\* "M1.mkv", "M2.mkv", ...: n files whose names say nothing
Neutral(n) == [i \in 1..n |-> FileEntry(<<"M">> \o DecimalStr(i) \o MkvSuffix)]

\* the number of files the scan stops at (sync.py line 594)
max_files == 100

\* trees with about max_files files: the files that say nothing, and a file
\* with a provider id listed after them or in a folder listed before them
LargeTrees ==
    { [ok |-> TRUE, entries |-> Neutral(n) \o <<FileEntry(m)>>]
        : n \in (max_files - 1)..(max_files + 1),
          m \in {<<"M", " ", "[", "i", "m", "d", "b", "i", "d", "-", "t", "t", "1", "]", ".", "m", "k", "v">>, <<"M", " ", "{", "e", "d", "i", "t", "i", "o", "n", "-", "C", "u", "t", "}", ".", "m", "k", "v">>} }
    \cup
    { [ok |-> TRUE, entries |-> <<DirEntry(<<"D">>, TRUE, <<FileEntry(m)>>)>> \o Neutral(n)]
        : n \in (max_files - 1)..(max_files + 1),
          m \in {<<"M", " ", "[", "i", "m", "d", "b", "i", "d", "-", "t", "t", "1", "]", ".", "m", "k", "v">>, <<"M", " ", "{", "e", "d", "i", "t", "i", "o", "n", "-", "C", "u", "t", "}", ".", "m", "k", "v">>} }

\* sync called with convert_to None or "auto" on every tree, and with the
\* other values on one
Detections ==
    [kind : {"source"}, convert_to : {"None", "auto"}, tree : SmallTrees \cup LargeTrees]
    \cup [kind : {"source"}, convert_to : {"", "plex", "jellyfin", "emby"},
          tree : {[ok |-> TRUE, entries |-> <<>>]}]

\* the command lines of the entry point: with or without --radarr-hook, the
\* environment variables radarr_eventtype and radarr_movie_path ("None" when
\* not set), and what the body of sync does on the libraries named when it
\* is entered: it returns 0 or 1 or raises
Invocations ==
    [kind : {"argv"}, radarr_hook : BOOLEAN,
     radarr_eventtype : {"None", "Test", "Grab", "Download", "Upgrade", "Rename"},
     radarr_movie_path : {"None", "", "/jf/Movie (2000)"},
     body : {"0", "1", "KeyboardInterrupt", "OSError"}]

\* what a sequence of calls works on: a tree (utils.remove), a movie and a
\* video (video_name), a file name (parse_video_path), a folder name
\* (parse_movie_path), a source folder and a video in it, or a library (scan)
CallInputs ==
    {[kind |-> "library", conv |-> c, tree |-> t] : c \in {"jellyfin", "plex"}, t \in Libraries}
    \cup JellyfinPairs \cup PlexPairs \cup
    {[kind |-> "tree"]}
    \cup {[kind |-> "video", movie |-> m, video |-> v] : m \in CallMovies, v \in CallVideos}
    \cup {[kind |-> "name", conv |-> "jellyfin", name |-> n] : n \in JellyfinNames}
    \cup {[kind |-> "name", conv |-> "plex", name |-> n] : n \in PlexNames}
    \cup {[kind |-> "folder", conv |-> "jellyfin", name |-> n] : n \in JellyfinFolders}
    \cup {[kind |-> "folder", conv |-> "plex", name |-> join(<<>>, pieces), pieces |-> pieces]
             : pieces \in PlexFolderPieces}
    \cup Invocations \cup Detections

CallInit ==
    /\ call \in {[fn |-> "none", in |-> i] : i \in CallInputs}
    /\ fs \in IF call.in.kind = "tree" THEN RemoveTrees ELSE {Tree(Dir(TgtRoot))}
    /\ cfg = CHOOSE o \in Options({<<>>}, {FALSE}, {FALSE}, {TgtRoot}, {FALSE}) :
                ~o.dry_run /\ o.delete
    /\ pc = "idle"
    /\ run = 0
    /\ queue = <<>>
    /\ keys = {}
    /\ processed = <<>>
    /\ report = NoConf
    /\ result = "none"
    /\ oplog = <<>>
    /\ last = <<>>
    /\ interrupted = FALSE
    /\ fs0 = fs
    /\ fsRun = fs
    /\ summary = NoSummary

engine == <<cfg, pc, run, queue, keys, processed, report, result, oplog, last,
            interrupted, fs0, fsRun, summary>>

\* utils.remove(item)
CallRemove ==
    /\ call.in.kind = "tree"
    /\ \E item \in RemovePaths, denied \in SUBSET {"unlink", "rmtree"}, gone \in BOOLEAN :
        /\ fs' = remove(fs, item, denied, gone).fs
        /\ call' = [fn |-> "remove", in |-> call.in, item |-> item,
                    existed |-> Exists(fs, item),
                    ok |-> remove(fs, item, denied, gone).ok]
    /\ UNCHANGED engine

\* the library of a convention: video_name and parse_video_path
VideoNameOf(conv, movie, video, tags, providers) ==
    IF conv = "jellyfin" THEN JellyfinVideoName(movie, video, tags, providers)
    ELSE PlexVideoName(movie, video, tags)

ParseVideoPathOf(conv, name) ==
    IF conv = "jellyfin" THEN JellyfinParseVideoPath(name) ELSE PlexParseVideoPath(name)

\* video_name(movie, video) of either library; the two sets of the video are
\* iterated in some order
CallVideoName ==
    /\ call.in.kind = "video"
    /\ \E conv \in {"jellyfin", "plex"},
          tags \in Perms(OrEmpty(call.in.video.tags)),
          providers \in Perms(OrEmpty(call.in.video.providers)) :
            call' = [fn |-> "video_name", in |-> call.in, conv |-> conv,
                     name |-> VideoNameOf(conv, call.in.movie, call.in.video, tags, providers)]
    /\ UNCHANGED <<fs, engine>>

\* parse_video_path on the name video_name has just returned
CallParseGenerated ==
    /\ call.fn = "video_name"
    /\ call' = [fn |-> "parse_video_path", in |-> call.in, conv |-> call.conv,
                name |-> call.name, video |-> ParseVideoPathOf(call.conv, call.name)]
    /\ UNCHANGED <<fs, engine>>

\* parse_video_path on a file name
CallParseVideoPath ==
    /\ call.in.kind = "name"
    /\ call' = [fn |-> "parse_video_path", in |-> call.in, conv |-> call.in.conv,
                name |-> call.in.name,
                video |-> ParseVideoPathOf(call.in.conv, call.in.name)]
    /\ UNCHANGED <<fs, engine>>

\* sync.py line 319: the suffix test of process_movie, on the name of a file
\* (two of the accepted suffixes)
VIDEO_SUFFIXES == {<<".", "m", "k", "v">>, <<".", "m", "p", "4">>}

IsAcceptedVideo(name) == lower(PathSuffix(name)) \in VIDEO_SUFFIXES

OtherConv(conv) == IF conv = "jellyfin" THEN "plex" ELSE "jellyfin"

\* sync.py lines 320-322: the name of the target video, from the VideoInfo the
\* source library has parsed (parse_video_path of neither library returns
\* None, so the fallback VideoInfo is never taken)
TargetVideoName(conv, movie, video, tags, providers) ==
    VideoNameOf(conv, movie, video, tags, providers)

\* process_movie lines 319-322 on an accepted video whose name has been
\* parsed: the target name in the other convention, for the movie of the folder
CallTargetVideoName ==
    /\ call.fn = "parse_video_path" /\ call.in.kind = "name"
    /\ IsAcceptedVideo(call.name)
    /\ \E movie \in CallMovies,
          tags \in Perms(OrEmpty(call.video.tags)),
          providers \in Perms(OrEmpty(call.video.providers)) :
            call' = [fn |-> "target_video_name", in |-> call.in, conv |-> OtherConv(call.conv),
                     movie |-> movie, video |-> call.video,
                     name |-> TargetVideoName(OtherConv(call.conv), movie, call.video,
                                              tags, providers)]
    /\ UNCHANGED <<fs, engine>>

ParseMoviePathOf(conv, name) ==
    IF conv = "jellyfin" THEN JellyfinParseMoviePath(name) ELSE PlexParseMoviePath(name)

\* parse_movie_path on a folder name
CallParseMoviePath ==
    /\ call.in.kind = "folder"
    /\ call' = [fn |-> "parse_movie_path", in |-> call.in, conv |-> call.in.conv,
                name |-> call.in.name,
                movie |-> ParseMoviePathOf(call.in.conv, call.in.name)]
    /\ UNCHANGED <<fs, engine>>

MovieNameOf(conv, movie) ==
    IF conv = "jellyfin" THEN JellyfinMovieName(movie) ELSE PlexMovieName(movie)

\* the names of the target folder and of the target video, from the movie
\* and the video the source library has parsed
TargetNames(in, conv, movie, video) ==
    \E tags \in Perms(OrEmpty(video.tags)), providers \in Perms(OrEmpty(video.providers)) :
        call' = [fn |-> "target_path", in |-> in, conv |-> conv, movie |-> movie,
                 video |-> video, folder |-> MovieNameOf(conv, movie),
                 name |-> TargetVideoName(conv, movie, video, tags, providers)]

\* scan and process_movie on a source folder and one video in it: the movie
\* parsed from the folder name, the video parsed from the file name, and the
\* target names in the other convention
CallTargetPath ==
    /\ call.in.kind = "pair" /\ call.fn = "none"
    /\ ParseMoviePathOf(call.in.conv, call.in.folder) # NoMovieInfo
    /\ IsAcceptedVideo(call.in.name)
    /\ TargetNames(call.in, OtherConv(call.in.conv),
                   ParseMoviePathOf(call.in.conv, call.in.folder),
                   ParseVideoPathOf(call.in.conv, call.in.name))
    /\ UNCHANGED <<fs, engine>>

\* os.scandir(base_dir): the entries directly below the root
ScanDir(tree) == {e \in tree : Len(e.path) = 1}

\* variant: a symlink to a directory counts as a directory
IsScannedDir_FollowSymlinks(entry) == entry.type \in {"dir", "symlink"}

\* library.py line 75: entry.is_dir(follow_symlinks=False)
IsScannedDir(entry) == entry.type = "dir"

\* MediaLibrary.scan lines 72-86 over the entries in the order scandir lists
\* them: the folders yielded with their MovieInfo, and the names warned about
RECURSIVE scan(_, _)
scan(conv, entries) ==
    IF entries = <<>> THEN [yielded |-> <<>>, warned |-> <<>>]
    ELSE IF ~IsScannedDir(entries[1]) THEN scan(conv, Tail(entries))
    ELSE IF ParseMoviePathOf(conv, entries[1].path[1]) = NoMovieInfo
    THEN [scan(conv, Tail(entries)) EXCEPT !.warned = <<entries[1].path[1]>> \o @]
    ELSE [scan(conv, Tail(entries))
            EXCEPT !.yielded = <<[name |-> entries[1].path[1],
                                  movie |-> ParseMoviePathOf(conv, entries[1].path[1])]>> \o @]

\* sync.py lines 145-155: the keys of movies_to_sync, one for each folder
\* the scan yields
MovieKeys(conv, yielded) ==
    {MovieNameOf(conv, yielded[i].movie) : i \in 1..Len(yielded)}

ScanReturned(in, res) ==
    call' = [fn |-> "scan", in |-> in, conv |-> in.conv, yielded |-> res.yielded,
             warned |-> res.warned, keys |-> MovieKeys(OtherConv(in.conv), res.yielded)]

\* source.scan() as scan_media_library runs it
CallScan ==
    /\ call.in.kind = "library" /\ call.fn = "none"
    /\ \E entries \in Perms(ScanDir(call.in.tree)) : ScanReturned(call.in, scan(call.in.conv, entries))
    /\ UNCHANGED <<fs, engine>>

\* ---- sync.py: determine_library_type ----
\* lines 565-579: the entries of one directory, until max files are found;
\* st holds dirs_to_scan, the files yielded so far, and whether the
\* generator has returned
RECURSIVE ScanEntriesLoop(_, _, _)
ScanEntriesLoop(entries, st, max) ==
    IF entries = <<>> THEN st
    ELSE IF Len(st.found) >= max THEN [st EXCEPT !.returned = TRUE]
    ELSE ScanEntriesLoop(Tail(entries),
            IF entries[1].type = "dir" THEN [st EXCEPT !.dirs = Append(@, entries[1].dir)]
            ELSE IF entries[1].type = "file" /\ IsAcceptedVideo(entries[1].name)
            THEN [st EXCEPT !.found = Append(@, entries[1].name)]
            ELSE st,
            max)

\* lines 553-582: the video files in the order the generator yields them,
\* breadth first; a directory that cannot be read is skipped
RECURSIVE scan_for_video_files(_, _)
scan_for_video_files(st, max) ==
    IF st.dirs = <<>> \/ Len(st.found) >= max \/ st.returned THEN st.found
    ELSE scan_for_video_files(
            IF Head(st.dirs).ok
            THEN ScanEntriesLoop(Head(st.dirs).entries, [st EXCEPT !.dirs = Tail(@)], max)
            ELSE [st EXCEPT !.dirs = Tail(@)],
            max)

\* line 597: \[[a-z]+id-[^\]]+\] is found, letters of either case
JellyfinMarker(fname) == \E i \in 1..Len(fname) : IdBlockEnd(lower(fname), i) # 0

\* line 599: \{[a-z]+-[^\}]+\} is found
PlexMarker(fname) == \E i \in 1..Len(fname) : MetaBlockAt(fname, i)

\* line 602: \{edition-[^\}]+\} is found
EditionMarker(fname) ==
    \E i \in 1..Len(fname) :
        /\ OccursAt(lower(fname), <<"{">> \o StrEdition \o <<"-">>, i)
        /\ FirstClose(fname, "}", i + 9) > i + 9

\* lines 605-606: there is a variant after " - " and no year in it
JellyfinHint(fname) ==
    /\ Len(split(fname, <<" ", "-", " ">>)) > 1
    /\ ~\E i \in 1..Len(Last(split(fname, <<" ", "-", " ">>))) :
            YearAt(Last(split(fname, <<" ", "-", " ">>)), i)

\* line 608: \[\d{3,4}[pi]\] is found
ResolutionHint(fname) ==
    \E i \in 1..Len(fname), n \in {3, 4} :
        /\ i + n + 2 <= Len(fname)
        /\ fname[i] = "[" /\ fname[i + n + 2] = "]"
        /\ \A j \in (i + 1)..(i + n) : fname[j] \in Digits
        /\ LowerChar(fname[i + n + 1]) \in {"p", "i"}

\* line 610: \[[a-z0-9\.\,]+\] is found
LabelHint(fname) ==
    \E i \in 1..Len(fname), j \in 1..Len(fname) :
        /\ j > i + 1 /\ fname[i] = "[" /\ fname[j] = "]"
        /\ \A k \in (i + 1)..(j - 1) : fname[k] \in Letters \cup Digits \cup {".", ","}

Hints(hint1, hint2) == (IF hint1 THEN 1 ELSE 0) + (IF hint2 THEN 1 ELSE 0)

\* variant: equal numbers of hints count for Plex
Decided_TiePlex(st) ==
    IF st.type # "None" THEN st
    ELSE [st EXCEPT !.type = IF st.plex_hints >= st.jellyfin_hints THEN "plex" ELSE "jellyfin"]

\* lines 613-617
Decided(st) ==
    IF st.type # "None" THEN st
    ELSE [st EXCEPT !.type = IF st.plex_hints > st.jellyfin_hints THEN "plex"
                             ELSE IF st.jellyfin_hints > st.plex_hints THEN "jellyfin"
                             ELSE "None"]

\* lines 594-611: the loop over the files the generator yields, left at the
\* first definitive marker
RECURSIVE DetectLoop(_, _)
DetectLoop(found, st) ==
    IF found = <<>> THEN st
    ELSE IF JellyfinMarker(PathStem(found[1]))
    THEN [st EXCEPT !.type = "jellyfin", !.inspected = Append(@, found[1])]
    ELSE IF PlexMarker(PathStem(found[1])) \/ EditionMarker(PathStem(found[1]))
    THEN [st EXCEPT !.type = "plex", !.inspected = Append(@, found[1])]
    ELSE DetectLoop(Tail(found),
            [st EXCEPT !.inspected = Append(@, found[1]),
                       !.jellyfin_hints = @ + Hints(JellyfinHint(PathStem(found[1])), FALSE),
                       !.plex_hints = @ + Hints(ResolutionHint(PathStem(found[1])),
                                                LabelHint(PathStem(found[1])))])

\* lines 585-617
determine_library_type(tree) ==
    Decided(DetectLoop(scan_for_video_files([dirs |-> <<tree>>, found |-> <<>>, returned |-> FALSE],
                                            max_files),
                       [type |-> "None", inspected |-> <<>>, plex_hints |-> 0, jellyfin_hints |-> 0]))

\* sync lines 639-649 with the library type determined: sync returns 1, goes
\* on with a source and a target convention, or raises ValueError
Conventions(convert_to, detected) ==
    IF convert_to \in {"None", "", "auto"}
    THEN IF detected.type = "None"
         THEN [status |-> "1", source_type |-> "None", target_type |-> "None"]
         ELSE [status |-> "entered", source_type |-> detected.type,
               target_type |-> IF detected.type = "jellyfin" THEN "plex" ELSE "jellyfin"]
    ELSE IF convert_to \in {"jellyfin", "plex"}
    THEN [status |-> "entered", source_type |-> IF convert_to = "plex" THEN "jellyfin" ELSE "plex",
          target_type |-> convert_to]
    ELSE [status |-> "ValueError", source_type |-> "None", target_type |-> "None"]

ConventionsReturned(in, detected) ==
    call' = [fn |-> "conventions", in |-> in, detected |-> detected,
             out |-> Conventions(in.convert_to, detected)]

\* sync up to line 652; with an explicit convert_to the library type is not
\* determined
CallConventions ==
    /\ call.in.kind = "source" /\ call.fn = "none"
    /\ ConventionsReturned(call.in,
            IF call.in.convert_to \in {"None", "", "auto"}
            THEN determine_library_type(call.in.tree)
            ELSE [type |-> "None", inspected |-> <<>>, plex_hints |-> 0, jellyfin_hints |-> 0])
    /\ UNCHANGED <<fs, engine>>

\* sync.py lines 620-632: the keyword parameters of sync
SyncKeywords ==
    {"dry_run", "delete", "create", "verbose", "debug", "convert_to", "update_filenames",
     "partial_path"}

\* cli/sync.py lines 66-79: the keyword arguments main passes to sync
MainKeywords ==
    {"dry_run", "delete", "create", "verbose", "debug", "convert_to", "update_filenames",
     "partial_path", "verify_only", "skip_verify"}

\* the call jp.sync(source, target, **keywords): a keyword that is no parameter
\* raises TypeError before the body is entered
CallSync(keywords, body) == IF keywords \subseteq SyncKeywords THEN body ELSE "TypeError"

\* cli/sync.py lines 64-86: the exit status for the outcome of the call
ExitStatus(outcome) ==
    CASE outcome = "0" -> 0
      [] outcome = "1" -> 1
      [] outcome = "KeyboardInterrupt" -> 10
      [] OTHER -> 99

\* cli/sync.py lines 41-58: the hook leaves before sync is called
HookExits(in) ==
    in.radarr_hook /\ (in.radarr_eventtype \notin {"Download", "Upgrade", "Rename"}
                          \/ in.radarr_movie_path \in {"None", ""})

\* cli/sync.py lines 11-86
main(in) ==
    IF in.radarr_hook /\ in.radarr_eventtype = "None" THEN 1
    ELSE IF in.radarr_hook /\ in.radarr_eventtype \notin {"Download", "Upgrade", "Rename"} THEN 0
    ELSE IF in.radarr_hook /\ in.radarr_movie_path \in {"None", ""} THEN 1
    ELSE ExitStatus(CallSync(MainKeywords, in.body))

\* the entry point runs and the process exits
CallMain ==
    /\ call.in.kind = "argv" /\ call.fn = "none"
    /\ call' = [fn |-> "main", in |-> call.in, exit |-> main(call.in)]
    /\ UNCHANGED <<fs, engine>>

CallNext ==
    \/ CallMain
    \/ CallConventions
    \/ CallScan
    \/ CallTargetPath
    \/ CallRemove
    \/ CallVideoName
    \/ CallParseGenerated
    \/ CallParseVideoPath
    \/ CallTargetVideoName
    \/ CallParseMoviePath

CallSpec == CallInit /\ [][CallNext]_vars

\* ------------------------------------------------------------------------
\* Properties
\* ------------------------------------------------------------------------
Mutating == {"link", "rename", "unlink", "rmtree"}

OpsOfKind(log, kinds) == {i \in 1..Len(log) : log[i].op \in kinds}

\* a run that followed a complete, uninterrupted run has ended
SecondRunDone == pc = "done" /\ run >= 2 /\ ~interrupted /\ cfg.source # cfg.target

\* C1: a second run over unchanged trees with the same options creates no
\* hardlink, renames nothing and removes nothing
C1_Idempotence == SecondRunDone => OpsOfKind(oplog, Mutating) = {}


\* the whole-run outcomes: every file system an uninterrupted run can end with
RECURSIVE AfterMovies(_, _, _)
AfterMovies(f, cf, q) ==
    IF q = <<>> THEN {f}
    ELSE LET c == Ctx(cf, q[1])
         IN  UNION { AfterMovies(process_movie(f, c, order, idx).fs, cf, Tail(q))
                       : order \in VideoOrders(f, q[1]),
                         idx \in InodeIndexChoices(f, TargetPath(c)) }

RunOutcomes(f, cf) ==
    UNION { LET b == SyncBegin(f, cf, entries)
            IN  IF b.pc = "done" THEN {b.fs}
                ELSE IF cf.partial # <<>> THEN AfterMovies(b.fs, cf, b.queue)
                ELSE {root_cleanup(g, cf, b.keys).fs : g \in AfterMovies(b.fs, cf, b.queue)}
          : entries \in ScanOrders(f, cf) }


\* the re-run that followed an interrupted first run has ended
ResumedRunDone == pc = "done" /\ interrupted /\ run = 2 /\ cfg.source # cfg.target

\* C6: a first run killed between two file system operations, then re-run to
\* completion with the same options, ends in a state an uninterrupted run of
\* the initial trees ends in
C6_SafeResume == ResumedRunDone => fs \in RunOutcomes(fs0, cfg)


\* ---- collisions between source folders ----
Scanned(f, cf) == ScanLibrary(f, SourceConv(cf), cf.source, cf.unreadable)

TargetNameOf(cf, e) ==
    movie_name(TargetConv(cf), parse_movie_path(SourceConv(cf), PathName(e)))

Offenders(f, cf, k) == {PathName(e) : e \in {x \in Scanned(f, cf) : TargetNameOf(cf, x) = k}}

CollidingKeys(f, cf) ==
    {k \in {TargetNameOf(cf, e) : e \in Scanned(f, cf)} : Cardinality(Offenders(f, cf, k)) >= 2}

\* a full-scan run over a source library with colliding folders has ended
CollisionRunDone == pc = "done" /\ cfg.partial = <<>> /\ CollidingKeys(fsRun, cfg) # {}

ReportComplete ==
    /\ DOMAIN report = CollidingKeys(fsRun, cfg)
    /\ \A k \in DOMAIN report :
          /\ Range(report[k]) = Offenders(fsRun, cfg, k)
          /\ Len(report[k]) = Cardinality(Offenders(fsRun, cfg, k))

\* C2 as stated: with colliding source folders every offender is reported, no
\* movie is processed and the file system is not touched at all
C2_CollisionAbort_NoMutation ==
    CollisionRunDone =>
        /\ processed = <<>>
        /\ oplog = <<>> /\ fs = fsRun
        /\ (result = "0" => ReportComplete)

\* C2 amended: with colliding source folders every offender is reported, no
\* movie is processed and nothing is touched except that a missing target root
\* is created when create is set
C2_CollisionAbort ==
    CollisionRunDone =>
        /\ processed = <<>>
        /\ \A i \in 1..Len(oplog) : oplog[i] = OpMkdir(cfg.target)
        /\ (oplog # <<>> => cfg.create /\ ~Exists(fsRun, cfg.target))
        /\ (result = "0" => ReportComplete)

C2_Witness ==
    /\ CollisionRunDone /\ result = "0"
    /\ \E k \in DOMAIN report : Len(report[k]) = 3
    /\ oplog = <<OpMkdir(cfg.target)>>

\* ---- one process_movie call ----
MovieCall == last # <<>> /\ cfg.source # cfg.target

L == last[1]

SourceVideos(f, c) == {e \in ListDir(f, c.source_path) : IsVideo(f, e)}

Intended(c, e) == VideoItem(c, e).tgt

IntendedNames(f, c) == {PathName(Intended(c, e)) : e \in SourceVideos(f, c)}

\* the target files holding the inode of source video e under another name
StaleFor(f, c, e) ==
    {p \in ListDir(f, TargetPath(c)) : IsFile(f, p) /\ f[p].ino = f[e].ino /\ p # Intended(c, e)}

Sidecars(f, p) ==
    {q \in ListDir(f, Parent(p)) :
        /\ IsFile(f, q)
        /\ Suffix(PathName(q)) \in ACCEPTED_ASSOCIATED_SUFFIXES
        /\ StartsWithStemDot(PathName(q), Stem(PathName(p)))}

\* C3: process_movie never links a source video into the target folder while
\* that folder already holds a link to the same inode under another name
C3_NoDuplicateLink ==
    MovieCall =>
        \A i \in 1..Len(L.res.ops) :
            LET o == L.res.ops[i]
                before == ApplyOps(L.pre, SubSeq(L.res.ops, 1, i - 1))
            IN  (o.op = "link" /\ IsVideo(L.pre, o.from) /\ Parent(o.path) = TargetPath(L.c))
                    => \A p \in ListDir(before, TargetPath(L.c)) :
                          ~(IsFile(before, p) /\ before[p].ino = before[o.from].ino)

\* C4: with repair disabled every stale target file stays in place with its
\* sidecars, also when delete is set, and a warning names the expected file
C4_RepairDisabled ==
    (MovieCall /\ ~L.c.o.update_filenames /\ ~L.res.conflict) =>
        \A e \in SourceVideos(L.pre, L.c) :
            ~Exists(L.pre, Intended(L.c, e)) =>
                \A p \in StaleFor(L.pre, L.c, e) :
                    PathName(p) \notin IntendedNames(L.pre, L.c) =>
                        /\ IsFile(L.res.fs, p) /\ L.res.fs[p].ino = L.pre[p].ino
                        /\ \A q \in Sidecars(L.pre, p) : Exists(L.res.fs, q)
                        /\ [stale |-> p, expected |-> Intended(L.c, e)] \in L.res.warned

\* C5: with repair enabled (no dry-run) every stale target video is renamed to
\* the intended name together with its sidecars: afterwards the intended name
\* holds the source inode and nothing of it is left under the stale name
C5_RepairEnabled ==
    (MovieCall /\ L.c.o.update_filenames /\ ~L.c.o.dry_run /\ ~L.res.conflict) =>
        \A e \in SourceVideos(L.pre, L.c) :
            (~Exists(L.pre, Intended(L.c, e)) /\ Cardinality(StaleFor(L.pre, L.c, e)) = 1) =>
                \A p \in StaleFor(L.pre, L.c, e) :
                    /\ IsFile(L.res.fs, Intended(L.c, e))
                    /\ L.res.fs[Intended(L.c, e)].ino = L.pre[e].ino
                    /\ ~(IsFile(L.res.fs, p) /\ L.res.fs[p].ino = L.pre[e].ino)
                    /\ Stem(PathName(p)) # Stem(PathName(Intended(L.c, e)))
                          => \A q \in Sidecars(L.pre, p) : ~Exists(L.res.fs, q)

\* C7: a run whose source root and target root are the same path fails with a
\* configuration error: it processes no movie and changes nothing
C7_SamePathRefused ==
    (cfg.source = cfg.target /\ run >= 1) =>
        /\ processed = <<>>
        /\ oplog = <<>> /\ fs = fsRun
        /\ (pc = "done" => result \in {"1", "ValueError"})

\* ---- mount safety ----
SourceLooksEmpty(f, cf) ==
    IsDir(f, cf.source) /\ (cf.unreadable \/ SubDirs(f, cf.source) = {})

Refused == result = "1" /\ fs = fsRun /\ oplog = <<>>

\* C8 as stated: delete requested and a source root without subdirectories
\* (or unreadable): sync returns 1 and the target tree is untouched
C8_MountSafety_AnyMode ==
    (pc = "done" /\ cfg.delete /\ SourceLooksEmpty(fsRun, cfg)) => Refused

\* C8 amended: the same for a full-scan run (no single-folder path)
C8_MountSafety ==
    (pc = "done" /\ cfg.delete /\ cfg.partial = <<>> /\ SourceLooksEmpty(fsRun, cfg)) => Refused

C8_Witness ==
    /\ pc = "done" /\ cfg.delete /\ cfg.partial = <<>> /\ ~cfg.dry_run /\ ~cfg.unreadable
    /\ SourceLooksEmpty(fsRun, cfg) /\ ListDir(fsRun, cfg.source) # {}
    /\ cfg.source # cfg.target
    /\ RootStrays(fs, cfg.target, {}) # {}
    /\ Refused

\* C9: a dry run changes nothing in either tree
C9_DryRunFrame == cfg.dry_run => (oplog = <<>> /\ fs = fs0)

\* ---- two videos of one movie with the same target name ----
IntraCollision(f, c) ==
    \E e1, e2 \in SourceVideos(f, c) :
        e1 # e2 /\ PathName(Intended(c, e1)) = PathName(Intended(c, e2))

ZeroCounts(res) ==
    res.linked = 0 /\ res.removed = 0 /\ res.alinked = 0 /\ res.aremoved = 0

\* C10: a movie with two videos computing the same target name is given up
\* with zero counts and without touching anything, and the run goes on: it
\* ends normally with every scanned movie handed to process_movie
C10_IntraMovieCollision ==
    /\ (MovieCall /\ IntraCollision(L.pre, L.c)) =>
          L.res.ops = <<>> /\ L.res.fs = L.pre /\ ZeroCounts(L.res)
    /\ (pc = "done" /\ cfg.partial = <<>> /\ result = "0" /\ DOMAIN report = {}
            /\ cfg.source # cfg.target) =>
          Range(processed) = Scanned(fsRun, cfg)

C10_Witness ==
    /\ pc = "done" /\ result = "0" /\ ~cfg.dry_run
    /\ \E i \in 1..Len(processed) : IntraCollision(fsRun, Ctx(cfg, processed[i]))
    /\ \E i \in 1..Len(oplog) :
          oplog[i].op = "link" /\ ~IntraCollision(fsRun, Ctx(cfg, Parent(oplog[i].from)))
    /\ MovieCall /\ IntraCollision(L.pre, L.c)

\* ---- stray entries of the target root ----
ScannedTargetNames == {TargetNameOf(cfg, x) : x \in Scanned(fsRun, cfg)}

\* the step in which sync leaves the exhausted movie sequence and returns
RootCleanupStep == pc = "movies" /\ queue = <<>> /\ pc' = "done"

MovieHandled ==
    /\ MovieCall
    /\ ~L.res.conflict
    /\ ~(L.c.o.unreadable /\ L.c.source_path = L.c.o.source)

IntendedSidecarNames(f, c) ==
    UNION {{ReplaceStem(PathName(q), Stem(PathName(e)), Stem(PathName(Intended(c, e)))) :
               q \in {x \in ListDir(f, c.source_path) :
                        /\ x # e
                        /\ StartsWithStemDot(PathName(x), Stem(PathName(e)))
                        /\ Suffix(PathName(x)) \in ACCEPTED_ASSOCIATED_SUFFIXES}}
           : e \in SourceVideos(f, c)}

AssetFolderNames(f, c) == {PathName(d) : d \in SubDirs(f, c.source_path)}

Protected ==
    IntendedNames(L.pre, L.c) \cup IntendedSidecarNames(L.pre, L.c)
        \cup AssetFolderNames(L.pre, L.c) \cup L.res.preserved

\* an entry of the target folder that the call removed (not one it renamed)
Gone(e) ==
    /\ Exists(L.pre, e) /\ ~Exists(L.res.fs, e)
    /\ \A i \in 1..Len(L.res.ops) : ~(L.res.ops[i].op = "rename" /\ L.res.ops[i].from = e)

KeepsProtected ==
    \A e \in ListDir(L.pre, TargetPath(L.c)) : PathName(e) \in Protected => ~Gone(e)

OnlyProtectedLeft ==
    \A e \in ListDir(L.res.fs, TargetPath(L.c)) : PathName(e) \in Protected

NothingGone == \A e \in ListDir(L.pre, TargetPath(L.c)) : ~Gone(e)

\* C12 as stated: in delete mode the protected names stay and every other
\* entry of the target folder is removed; without delete nothing is removed
C12_MovieCleanup_AnyMode ==
    MovieHandled =>
        /\ KeepsProtected
        /\ (L.c.o.delete => OnlyProtectedLeft)
        /\ (~L.c.o.delete => NothingGone)

\* C12 amended: the same, the removal of the other entries being required
\* only when dry-run is not set
C12_MovieCleanup ==
    MovieHandled =>
        /\ KeepsProtected
        /\ ((L.c.o.delete /\ ~L.c.o.dry_run) => OnlyProtectedLeft)
        /\ (~L.c.o.delete => NothingGone)

C12_Witness ==
    /\ MovieHandled /\ L.c.o.delete /\ ~L.c.o.dry_run
    /\ L.res.preserved # {}
    /\ \E e \in ListDir(L.pre, TargetPath(L.c)) : Gone(e)
    /\ \E e \in ListDir(L.pre, TargetPath(L.c)) :
          PathName(e) \in L.res.preserved /\ Exists(L.res.fs, e)

\* ---------------------------------------------------------------------------
\* C13: an error raised by a single link, unlink or rename does not stop the
\* run and does not count as an updated file: a run on a file system that
\* refuses one kind of operation still returns normally with every movie of
\* the queue processed, and the movie's count of linked files is no more than
\* the links it made
C13_ErrorsContained ==
    (pc = "done" /\ cfg.denied # {} /\ last # <<>>)
        => /\ result # "OSError"
           /\ queue = <<>>
           /\ (~cfg.dry_run =>
                 last[1].res.linked <= Cardinality(OpsOfKind(last[1].res.ops, "link")))

\* ---------------------------------------------------------------------------
\* C14: utils.remove called on a path that does not exist returns success, so
\* removing the same entry twice succeeds both times
C14_IdempotentRemove ==
    (call.fn = "remove" /\ ~call.existed) => call.ok

\* ---------------------------------------------------------------------------
\* Round trips: parse_video_path has been called on the name that video_name
\* returned for the movie and the video of call.in
RoundTrip(conv) ==
    call.fn = "parse_video_path" /\ call.in.kind = "video" /\ call.conv = conv

\* tags that are empty, or reduce to DVD or to a single resolution
ReducibleTags(tags) ==
    \/ tags = NilSet
    \/ tags = {StrDVD}
    \/ Cardinality(tags) = 1 /\ \A t \in tags : RESOLUTION_PATTERN(t)

\* C15: Jellyfin round trip: for every movie and every video whose tags are
\* empty or reduce to a single resolution or to DVD, parsing the generated
\* Jellyfin name gives the video back
C15_JellyfinRoundTrip ==
    (RoundTrip("jellyfin") /\ ReducibleTags(call.in.video.tags))
        => call.video = call.in.video

ProviderId(movie) ==
    IF Truthy(movie.provider) /\ Truthy(movie.movie_id)
    THEN movie.provider \o <<"-">> \o movie.movie_id ELSE Nil

\* the video's providers include the movie's own provider id, and no tag of
\* the video has the form of a resolution
PlexFaithful(movie, video) ==
    /\ (ProviderId(movie) # Nil => ProviderId(movie) \in OrEmpty(video.providers))
    /\ \A t \in OrEmpty(video.tags) : ~RESOLUTION_PATTERN(t)

CanonicalResolutions == {Str2160p, Str1080p, <<"5", "7", "6", "p">>, <<"4", "8", "0", "p">>}

Shorthand(res) ==
    IF res = Str2160p THEN Str4k ELSE IF res = Str1080p THEN StrBD ELSE StrDVD

Canonical(res) ==
    IF res \in {Str2160p, Str1080p} THEN [res |-> res, tags |-> {}]
    ELSE [res |-> Nil, tags |-> {StrDVD}]

\* the Jellyfin file name of the movie with the one-word variant word
OneWordName(mname, word) == mname \o <<" ", "-", " ">> \o word \o <<".", "m", "k", "v">>

\* C17: the resolution shorthands agree in both directions: the names with the
\* variant 4k, BD and DVD parse to 2160p, 1080p and the DVD class; a video
\* with one of these values and nothing else is named with 4k, BD and DVD;
\* and a name generated from 2160p, 1080p, 576p or 480p parses to the same
\* canonical value, the DVD class for the last two
C17_Canonicalization ==
    /\ \A r \in CanonicalResolutions :
          (/\ call.fn = "parse_video_path" /\ call.in.kind = "name"
           /\ call.conv = "jellyfin" /\ call.name = OneWordName(<<"M">>, Shorthand(r)))
              => /\ call.video.resolution = Canonical(r).res
                 /\ OrEmpty(call.video.tags) = Canonical(r).tags
    /\ (/\ call.fn = "video_name" /\ call.conv = "jellyfin"
        /\ call.in.video.edition = Nil /\ call.in.video.providers = NilSet)
           => /\ (call.in.video.resolution \in CanonicalResolutions
                    => call.name = OneWordName(JellyfinMovieName(call.in.movie),
                                               Shorthand(call.in.video.resolution)))
              /\ (call.in.video.resolution = Nil /\ call.in.video.tags = {StrDVD}
                    => call.name = OneWordName(JellyfinMovieName(call.in.movie), StrDVD))
    /\ (RoundTrip("jellyfin") /\ call.in.video.resolution \in CanonicalResolutions)
           => /\ call.video.resolution = Canonical(call.in.video.resolution).res
              /\ OrEmpty(call.video.tags) = Canonical(call.in.video.resolution).tags

C17_Witness ==
    /\ RoundTrip("jellyfin")
    /\ call.in.video.resolution = <<"4", "8", "0", "p">>
    /\ call.name = OneWordName(JellyfinMovieName(call.in.movie), StrDVD)
    /\ call.video.resolution = Nil /\ call.video.tags = {StrDVD}

\* ---------------------------------------------------------------------------
\* the variant of a name of JellyfinNames that has one, and its words
VariantOf(name) == SubSeq(name, 5, Len(name) - 4)

ParsedVariant ==
    /\ call.fn = "parse_video_path" /\ call.in.kind = "name" /\ call.conv = "jellyfin"
    /\ IsPrefix(<<"M", " ", "-", " ">>, call.name)

\* which end of the variant decides: the first word when it matches the
\* resolution table, else the last word when there is more than one word and
\* it matches, else none
DecidingEnd(words) ==
    IF Matched(match_resolution(words[1])) THEN "first"
    ELSE IF Len(words) > 1 /\ Matched(match_resolution(words[Len(words)])) THEN "last"
    ELSE "none"

\* C18: variant parsing is two-ended with first-word priority: when the first
\* word matches the resolution table it gives resolution and tags and the
\* words after it are the edition; otherwise, when there is more than one word
\* and the last word matches, it gives resolution and tags and the words
\* before it are the edition; otherwise the whole variant is the edition
C18_TwoEndedParse ==
    ParsedVariant =>
        LET words == split(VariantOf(call.name), <<" ">>)
            n     == Len(words)
        IN  /\ DecidingEnd(words) = "first"
                  => /\ call.video.edition = OptStr(join(<<" ">>, Tail(words)))
                     /\ call.video.resolution = match_resolution(words[1]).res
                     /\ call.video.tags = OptSet(match_resolution(words[1]).tags)
            /\ DecidingEnd(words) = "last"
                  => /\ call.video.edition = OptStr(join(<<" ">>, Upto(words, n - 1)))
                     /\ call.video.resolution = match_resolution(words[n]).res
                     /\ call.video.tags = OptSet(match_resolution(words[n]).tags)
            /\ DecidingEnd(words) = "none"
                  => /\ call.video.edition = VariantOf(call.name)
                     /\ call.video.resolution = Nil
                     /\ call.video.tags = NilSet

\* both ends match: the first word decides, the last stays in the edition
C18_Witness ==
    /\ ParsedVariant
    /\ VariantOf(call.name) = Str4k \o <<" ">> \o StrCut \o <<" ">> \o StrBD
    /\ call.video.resolution = Str2160p
    /\ call.video.edition = StrCut \o <<" ">> \o StrBD

\* ---------------------------------------------------------------------------
\* C19: name generation is deterministic: two calls of video_name of the same
\* library with the same movie and the same video return the same name
C19_DeterministicNames ==
    [][(call.fn = "video_name" /\ call'.fn = "video_name" /\ call'.conv = call.conv
        /\ call'.in = call.in)
          => call'.name = call.name]_vars

\* ---------------------------------------------------------------------------
\* C20: the VideoInfo returned by parse_video_path of either library never has
\* its resolution among its tags
C20_ResolutionNotInTags ==
    call.fn = "parse_video_path"
        => ~(Truthy(call.video.resolution)
             /\ call.video.resolution \in OrEmpty(call.video.tags))


\* ---- MovieInfo returned by parse_movie_path ----
MovieParsed == call.fn = "parse_movie_path" /\ call.movie # NoMovieInfo

\* C21: the MovieInfo parse_movie_path of either convention returns has
\* provider and movie_id both present, a non-empty string each, or both absent
C21_ProviderAndIdTogether ==
    MovieParsed =>
        \/ Truthy(call.movie.provider) /\ Truthy(call.movie.movie_id)
        \/ call.movie.provider = Nil /\ call.movie.movie_id = Nil


\* ---- the extension of a parsed video ----
LowerCased(str) == str = lower(str)

\* C22: the extension of every VideoInfo parse_video_path returns starts with
\* the dot and is lower-cased, and the target name process_movie computes
\* from it ends in a lower-case extension
C22_ExtensionLowerCased ==
    /\ call.fn = "parse_video_path" /\ IsAcceptedVideo(call.name) =>
            call.video.extension[1] = "." /\ LowerCased(call.video.extension)
    /\ call.fn = "target_video_name" => LowerCased(PathSuffix(call.name))


\* ---- the patterns of Jellyfin movie folders ----
\* the provider key without the marker "id" it ends with
WithoutIdMarker(key) == Upto(key, Len(key) - 2)

\* the fields of pattern k on a name it matches, the marker taken off the key
FieldsOfPattern(name, k) ==
    IF ProviderIdGroup(name, k, TitleLen(name, k)) = Nil
    THEN Movie(strip(Upto(name, TitleLen(name, k))), YearGroup(name, k, TitleLen(name, k)),
               Nil, Nil)
    ELSE Movie(strip(Upto(name, TitleLen(name, k))), YearGroup(name, k, TitleLen(name, k)),
               WithoutIdMarker(split1(ProviderIdGroup(name, k, TitleLen(name, k)), <<"-">>)[1]),
               split1(ProviderIdGroup(name, k, TitleLen(name, k)), <<"-">>)[2])

JellyfinFolderParsed == call.fn = "parse_movie_path" /\ call.conv = "jellyfin"

\* C23: parse_movie_path of the Jellyfin library returns the fields of the
\* first of the five patterns that matches the folder name, the provider key
\* without its trailing "id" marker, and None only for the empty name, which
\* no pattern matches
C23_FirstMatchWins ==
    JellyfinFolderParsed =>
        /\ (call.movie = NoMovieInfo) = (call.name = <<>>)
        /\ call.name # <<>> =>
                /\ FirstPattern(call.name) # 0
                /\ call.movie = FieldsOfPattern(call.name, FirstPattern(call.name))


\* ---- the blocks of Plex movie folders ----
\* a piece of a folder name is blanks and a text; the text is a block when it
\* is one {key-value} or one [label]
TextOf(piece) == lstrip(piece, {" "})

BlanksOf(piece) == Upto(piece, Len(piece) - Len(TextOf(piece)))

IsMetaBlock(text) ==
    parse_meta_blocks(text, 1) # <<>> /\ parse_meta_blocks(text, 1)[1].blk = text

IsInfoBlock(text) ==
    parse_info_blocks(text, 1) # <<>> /\ parse_info_blocks(text, 1)[1].blk = text

IsBlock(text) == IsMetaBlock(text) \/ IsInfoBlock(text)

KeyOf(text) == parse_meta_blocks(text, 1)[1].key

ValueOf(text) == parse_meta_blocks(text, 1)[1].val

IsProviderBlock(text) ==
    IsMetaBlock(text) /\ lower(KeyOf(text)) \in {<<"i", "m", "d", "b">>, <<"t", "m", "d", "b">>,
                                                 <<"t", "v", "d", "b">>}

\* the name without its blocks, with whitespace collapsed
RECURSIVE Unblocked(_)
Unblocked(pieces) ==
    IF pieces = <<>> THEN <<>>
    ELSE (IF IsBlock(TextOf(pieces[1])) THEN BlanksOf(pieces[1]) ELSE pieces[1])
         \o Unblocked(Tail(pieces))

Remainder(pieces) == strip(CollapseSpaces(Unblocked(pieces)))

\* the remainder is a title, or a title, blanks and a year in parentheses
\* (whatever follows the year is not part of either)
TitleAndYear(rem, movie) ==
    IF \E t \in 1..Len(rem) : HasYear(rem, t + 1)
    THEN \E t \in 1..Len(rem) :
            /\ HasYear(rem, t + 1)
            /\ movie.title = strip(Upto(rem, t))
            /\ movie.year = SubSeq(rem, YearPos(rem, t + 1) + 1, YearPos(rem, t + 1) + 4)
    ELSE movie.title = rem /\ movie.year = Nil

PlexFolderParsed == call.fn = "parse_movie_path" /\ call.conv = "plex"

BlocksOf(pieces) == {TextOf(pieces[i]) : i \in {j \in 1..Len(pieces) : IsBlock(TextOf(pieces[j]))}}

\* C24: parse_movie_path of the Plex library removes every {key-value} and
\* every [label] block wherever it stands, takes provider and movie_id only
\* from a block with the key imdb, tmdb or tvdb in any case, leaves no block in
\* the title, splits the collapsed remainder into title and optional year,
\* and returns None only when the remainder is empty
C24_BlockStripping ==
    PlexFolderParsed =>
        /\ (call.movie = NoMovieInfo) = (Remainder(call.in.pieces) = <<>>)
        /\ call.movie # NoMovieInfo =>
                /\ TitleAndYear(Remainder(call.in.pieces), call.movie)
                /\ \A b \in BlocksOf(call.in.pieces) : ~Contains(call.movie.title, b)
                /\ \/ /\ call.movie.provider = Nil /\ call.movie.movie_id = Nil
                       /\ \A b \in BlocksOf(call.in.pieces) : ~IsProviderBlock(b)
                   \/ \E b \in BlocksOf(call.in.pieces) :
                        /\ IsProviderBlock(b)
                        /\ call.movie.provider = lower(KeyOf(b))
                        /\ call.movie.movie_id = strip(ValueOf(b))

\* a block with a key in mixed case stands before the title, and the year
\* follows the title
C24_Witness ==
    /\ PlexFolderParsed
    /\ call.in.pieces = <<<<"{", "T", "m", "D", "b", "-", "5", "}">>, <<"M">>, <<" ">> \o StrYear>>
    /\ call.movie = Movie(<<"M">>, <<"2", "0", "0", "0">>, <<"t", "m", "d", "b">>, <<"5">>)


\* ---- the provider blocks of a Plex video name ----
Occurrences(str, sub) == Cardinality({i \in 1..Len(str) : OccursAt(str, sub, i)})

Braced(id) == <<"{">> \o id \o <<"}">>

OwnId(movie) ==
    IF Truthy(movie.provider) /\ Truthy(movie.movie_id)
    THEN movie.provider \o <<"-">> \o movie.movie_id ELSE Nil

OtherIds(movie, video) == OrEmpty(video.providers) \ {OwnId(movie)}

Ascending(seq) == \A i \in 1..(Len(seq) - 1) : StrLess(seq[i], seq[i + 1])

RECURSIVE BlocksAfter(_)
BlocksAfter(ids) ==
    IF ids = <<>> THEN <<>> ELSE <<" ">> \o Braced(ids[1]) \o BlocksAfter(Tail(ids))

PlexNameGenerated == call.fn = "video_name" /\ call.conv = "plex"

\* C25: in the name PlexLibrary.video_name returns, every provider id of the
\* video other than the movie's own stands exactly once, as a block directly
\* after the movie name, in ascending order, and the movie's own id stands
\* exactly once in the whole name
C25_ProviderBlocks ==
    PlexNameGenerated =>
        /\ \E ids \in Perms(OtherIds(call.in.movie, call.in.video)) :
              /\ Ascending(ids)
              /\ IsPrefix(PlexMovieName(call.in.movie) \o BlocksAfter(ids), call.name)
        /\ \A id \in OtherIds(call.in.movie, call.in.video) :
              Occurrences(call.name, Braced(id)) = 1
        /\ OwnId(call.in.movie) # Nil =>
              Occurrences(call.name, Braced(OwnId(call.in.movie))) = 1

\* the video carries the movie's own id and another one
C25_Witness ==
    /\ PlexNameGenerated
    /\ OwnId(call.in.movie) \in OrEmpty(call.in.video.providers)
    /\ OtherIds(call.in.movie, call.in.video) # {}
    /\ call.in.video.edition # Nil


\* ---- translation of names from Jellyfin to Plex ----
PlexResolutionOf(token) ==
    IF token = Str4k THEN Str2160p ELSE IF token = StrBD THEN Str1080p ELSE token

\* 'T (Y) {p-i}', without the block when the folder has no id
ExpectedPlexFolder(in) ==
    in.title \o <<" ", "(">> \o in.year \o <<")">>
    \o (IF in.id[1] = Nil THEN <<>>
        ELSE <<" ", "{">> \o in.id[1] \o <<"-">> \o in.id[2] \o <<"}">>)

ExpectedPlexFile(in) ==
    ExpectedPlexFolder(in)
    \o (IF in.edition = Nil THEN <<>>
        ELSE <<" ", "{">> \o StrEdition \o <<"-">> \o in.edition \o <<"}">>)
    \o (IF in.token = Nil THEN <<>> ELSE <<" ", "[">> \o PlexResolutionOf(in.token) \o <<"]">>)
    \o MkvSuffix

JellyfinTranslated == call.fn = "target_path" /\ call.in.conv = "jellyfin"

\* C26: a Jellyfin folder 'T (Y) [pid-i]' and a video of it with a variant
\* become the Plex folder 'T (Y) {p-i}' and the Plex file of that name with
\* ' {edition-E}' for the edition and ' [res]' for the resolution token, then
\* the extension; an absent field produces no block
C26_JellyfinToPlex ==
    JellyfinTranslated =>
        /\ call.folder = ExpectedPlexFolder(call.in)
        /\ call.name = ExpectedPlexFile(call.in)


\* ---- translation of names from Plex to Jellyfin ----
BlockValues(in, kind) == {in.blocks[i].val : i \in {j \in 1..Len(in.blocks) : in.blocks[j].kind = kind}}

\* 'T (Y) [pid-i]', without the block when the folder has no id
ExpectedJellyfinFolder(in) ==
    in.title \o <<" ", "(">> \o in.year \o <<")">>
    \o (IF in.id[1] = Nil THEN <<>>
        ELSE <<" ", "[">> \o in.id[1] \o <<"i", "d", "-">> \o in.id[2] \o <<"]">>)

\* the shorthand the name may carry: that of a resolution block, else DVD for
\* the label DVD, else none
ExpectedShorthands(in) ==
    IF BlockValues(in, "resolution") # {}
    THEN {Shorthand(r) : r \in BlockValues(in, "resolution")}
    ELSE IF StrDVD \in BlockValues(in, "label") THEN {StrDVD} ELSE {Nil}

ExpectedEdition(in) == IF BlockValues(in, "edition") = {} THEN Nil ELSE StrCut

ExpectedJellyfinFile(in, shorthand) ==
    ExpectedJellyfinFolder(in)
    \o (IF shorthand = Nil /\ ExpectedEdition(in) = Nil THEN <<>>
        ELSE <<" ", "-", " ">> \o VariantOfWords(shorthand, ExpectedEdition(in), TRUE))
    \o MkvSuffix

\* what must not come through: labels other than DVD, unknown keys, malformed blocks
LostValues(in) ==
    (BlockValues(in, "label") \ {StrDVD}) \cup BlockValues(in, "unknown")
    \cup BlockValues(in, "malformed")

PlexTranslated == call.fn = "target_path" /\ call.in.conv = "plex"

\* C27: a Plex folder and a video of it become the Jellyfin folder
\* 'T (Y) [pid-i]' and the file of that name followed by ' - ', the resolution
\* shorthand (4k, BD, DVD) and the edition when there is one of them, whatever
\* the order of the blocks; labels other than DVD, blocks with an unknown key
\* and malformed blocks do not appear in the name
C27_PlexToJellyfin ==
    PlexTranslated =>
        /\ call.folder = ExpectedJellyfinFolder(call.in)
        /\ BlockValues(call.in, "resolution") \subseteq CanonicalResolutions =>
                \E s \in ExpectedShorthands(call.in) :
                    call.name = ExpectedJellyfinFile(call.in, s)
        /\ \A v \in LostValues(call.in) \ ExpectedShorthands(call.in) : ~Contains(call.name, v)


\* ---- the scan of a library ----
NamesOf(seq) == {seq[i].name : i \in 1..Len(seq)}

\* the first-level directories of the library, and those whose names parse
FirstLevelDirs(in) == {e.path[1] : e \in {x \in in.tree : Len(x.path) = 1 /\ x.type = "dir"}}

Parsable(in) == {n \in FirstLevelDirs(in) : ParseMoviePathOf(in.conv, n) # NoMovieInfo}

LibraryScanned == call.fn = "scan"

\* C28: scan yields exactly the first-level directories of the library whose
\* names parse (no plain file, no symlink, no deeper directory), each once; a
\* folder whose name does not parse is reported, the scan goes on, and the
\* folder gets no key in the reconciliation mapping
C28_LibraryScan ==
    LibraryScanned =>
        /\ NamesOf(call.yielded) = Parsable(call.in)
        /\ Len(call.yielded) = Cardinality(Parsable(call.in))
        /\ Range(call.warned) = FirstLevelDirs(call.in) \ Parsable(call.in)
        /\ Cardinality(call.keys) <= Len(call.yielded)
        /\ \A k \in call.keys : \E i \in 1..Len(call.yielded) :
              k = MovieNameOf(OtherConv(call.conv), call.yielded[i].movie)

\* a Plex library with a movie folder, a folder whose name does not parse, a
\* plain file, a symlink and a nested directory: the movie folder alone is
\* yielded
C28_Witness ==
    /\ LibraryScanned /\ call.conv = "plex"
    /\ call.in.tree = LibraryEntries
    /\ NamesOf(call.yielded) = {<<"M", " ">> \o StrYear}
    /\ Len(call.warned) = 2

\* ------------------------------------------------------------------------
\* The mirroring of the asset folders
\* ------------------------------------------------------------------------
\* a run that was not a dry run has returned 0
RunCompleted == pc = "done" /\ result = "0" /\ ~cfg.dry_run

\* the first-level subfolders of the processed source folders whose names do
\* not start with a dot, each with the folder of the same name in the target
MirroredFolders ==
    UNION { { [src |-> d, tgt |-> Append(TargetPath(Ctx(cfg, processed[i])), PathName(d))]
                : d \in {e \in ListDir(fs, processed[i]) : IsDir(fs, e) /\ ~StartsWithDot(PathName(e))} }
            : i \in DOMAIN processed }

\* the path below the folder to that has the relative path p has below from
Counterpart(from, to, p) == to \o SubSeq(p, Len(from) + 1, Len(p))

OpsOn(p) == {i \in DOMAIN oplog : oplog[i].path = p}

\* the skip, replace or create rule for the source file p and its target q
\* over the run: same inode at the end; nothing done to an equal inode, a
\* different one unlinked and then linked, an absent one linked
LinkRule(p, q) ==
    /\ IsFile(fs, q) /\ fs[q].ino = fs[p].ino
    /\ IF IsFile(fsRun, q) /\ fsRun[q].ino = fsRun[p].ino
       THEN OpsOn(q) = {}
       ELSE IF IsFile(fsRun, q)
       THEN \E i, j \in OpsOn(q) :
                i < j /\ oplog[i] = OpUnlink(q) /\ oplog[j] = OpLink(p, q) /\ OpsOn(q) = {i, j}
       ELSE \E i \in OpsOn(q) : oplog[i] = OpLink(p, q) /\ OpsOn(q) = {i}

\* after a completed run every file of the set files below a mirrored folder
\* has its counterpart, and with delete nothing is left below the target
\* folder that has no counterpart in the source
MirroredFor(files) ==
    RunCompleted =>
        \A m \in MirroredFolders :
            /\ \A p \in {f \in files : Under(f, m.src)} : LinkRule(p, Counterpart(m.src, m.tgt, p))
            /\ cfg.delete =>
                  \A q \in {t \in DOMAIN fs : Under(t, m.tgt)} : Exists(fs, Counterpart(m.tgt, m.src, q))

\* C29 as stated: for every first-level source subfolder whose name does not
\* start with a dot, after a non-dry run every regular file at every depth
\* below it has a target counterpart at the same relative path with the same
\* inode (left alone, replaced or created), and with delete every target
\* entry without a source counterpart is removed
C29_AssetsMirrored_AnyFile ==
    MirroredFor({p \in DOMAIN fs : IsFile(fs, p)})

\* C29: the same for every regular file that is not a zero-byte file
C29_AssetsMirrored ==
    MirroredFor({p \in DOMAIN fs : IsFile(fs, p) /\ ~IsEmptyFile(fs, p)})

\* a run with delete replaced a file two levels below the movie folder, left
\* a zero-byte file of the source unlinked and removed a stray file
C29_Witness ==
    /\ RunCompleted /\ cfg.delete
    /\ \E m \in MirroredFolders :
         /\ \E p \in DOMAIN fs :
              /\ Under(p, m.src) /\ Len(p) = Len(m.src) + 2 /\ IsFile(fs, p)
              /\ IsFile(fsRun, Counterpart(m.src, m.tgt, p))
              /\ fsRun[Counterpart(m.src, m.tgt, p)].ino # fs[p].ino
              /\ fs[Counterpart(m.src, m.tgt, p)].ino = fs[p].ino
         /\ \E p \in DOMAIN fs : Under(p, m.src) /\ IsEmptyFile(fs, p)
         /\ \E q \in DOMAIN fsRun :
              Under(q, m.tgt) /\ ~Exists(fs, q) /\ ~Exists(fs, Counterpart(m.tgt, m.src, q))

\* ------------------------------------------------------------------------
\* The sidecar files of the videos
\* ------------------------------------------------------------------------
\* the accepted videos of the processed source folders, each with the files
\* beside it that are not accepted videos
VideoSiblings ==
    UNION { { [c |-> Ctx(cfg, processed[i]), video |-> v, file |-> e]
                : v \in {x \in ListDir(fs, processed[i]) : IsVideo(fs, x)},
                  e \in {x \in ListDir(fs, processed[i]) : IsFile(fs, x) /\ ~IsVideo(fs, x)} }
            : i \in DOMAIN processed }

\* the file is named S + R for the stem S of the video, R starting with a dot,
\* and its final suffix is an accepted sidecar suffix
IsSidecar(vs) ==
    /\ StartsWithStemDot(PathName(vs.file), Stem(PathName(vs.video)))
    /\ Suffix(PathName(vs.file)) \in ACCEPTED_ASSOCIATED_SUFFIXES

\* T + R in the target folder of the movie, T the stem of the target video
SidecarTarget(vs) ==
    Append(TargetPath(vs.c),
           ReplaceStem(PathName(vs.file), Stem(PathName(vs.video)),
                       Stem(VideoItem(vs.c, vs.video).name)))

\* after a completed run every sidecar of the set of pairs is linked under
\* its target name by the skip, replace or create rule, and no file beside
\* the videos was linked anywhere else
SidecarsFor(pairs) ==
    RunCompleted =>
        /\ \A vs \in {x \in pairs : IsSidecar(x)} : LinkRule(vs.file, SidecarTarget(vs))
        /\ \A vs \in VideoSiblings : \A i \in DOMAIN oplog :
              oplog[i].op = "link" /\ oplog[i].from = vs.file =>
                  \E ws \in VideoSiblings :
                      ws.file = vs.file /\ IsSidecar(ws) /\ oplog[i].path = SidecarTarget(ws)

\* C30 as stated: for each accepted source video with stem S mapped to the
\* target stem T, every sibling file named S + R whose final suffix is an
\* accepted sidecar suffix is hardlinked in the target folder of the movie as
\* T + R by the skip, replace or create rule; files that do not share the
\* stem S produce no sidecar for that video
C30_Sidecars_AnyFile ==
    SidecarsFor(VideoSiblings)

\* C30: the same for every sibling file that is not a zero-byte file
C30_Sidecars ==
    SidecarsFor({vs \in VideoSiblings : ~IsEmptyFile(fs, vs.file)})

\* a run replaced "Movie (2000) {edition-DC}.en.srt" by a link to the sidecar
\* "Movie (2000) - DC.en.srt", with "Movie (2000).en.srt" and
\* "Movie (2000) - DC.txt" beside the video
C30_Witness ==
    /\ RunCompleted
    /\ processed = <<Append(SrcRoot, F1)>>
    /\ IsFile(fs, Append(SrcRoot, F1) \o <<sPlainSrt>>)
    /\ IsFile(fs, Append(SrcRoot, F1) \o <<sDCtxt>>)
    /\ IsFile(fs, Append(SrcRoot, F1) \o <<sDCsrt>>)
    /\ IsFile(fs, Append(TgtRoot, F1) \o <<tDCsrt>>)
    /\ IsFile(fsRun, Append(TgtRoot, F1) \o <<tDCsrt>>)
    /\ fsRun[Append(TgtRoot, F1) \o <<tDCsrt>>].ino # fs[Append(SrcRoot, F1) \o <<sDCsrt>>].ino
    /\ fs[Append(TgtRoot, F1) \o <<tDCsrt>>].ino = fs[Append(SrcRoot, F1) \o <<sDCsrt>>].ino
    /\ ~IsEmptyFile(fs, Append(SrcRoot, F1) \o <<sDCsrt>>)

\* ------------------------------------------------------------------------
\* The exit status of the command line
\* ------------------------------------------------------------------------
\* C31: the entry point exits with 0 when the synchronization succeeds, 1 on
\* a validation failure reported by sync, 10 on user interruption and 99 only
\* on an unexpected failure; a valid invocation on a healthy library exits 0
C31_ExitCodes ==
    call.fn = "main" /\ ~HookExits(call.in) =>
        /\ call.in.body = "0" => call.exit = 0
        /\ call.in.body = "1" => call.exit = 1
        /\ call.in.body = "KeyboardInterrupt" => call.exit = 10
        /\ call.exit = 99 => call.in.body = "OSError"

\* ------------------------------------------------------------------------
\* The determination of the library type
\* ------------------------------------------------------------------------
\* sync was called without a convention to convert to
AutoDetected == call.fn = "conventions" /\ call.in.convert_to \in {"None", "", "auto"}

\* one of the inspected file names carries a definitive marker
MarkerFound(inspected) ==
    \E i \in 1..Len(inspected) :
        \/ JellyfinMarker(PathStem(inspected[i]))
        \/ PlexMarker(PathStem(inspected[i]))
        \/ EditionMarker(PathStem(inspected[i]))

\* C32: with no explicit convention the detection inspects at most 100 video
\* file names; when no definitive marker is found and the Plex and Jellyfin
\* hint scores are equal sync returns 1 and nothing in the file system has
\* changed; otherwise the target convention is the one that differs from
\* the detected source convention
C32_AutoDetection ==
    AutoDetected =>
        /\ Len(call.detected.inspected) <= max_files
        /\ \A i \in 1..Len(call.detected.inspected) : IsAcceptedVideo(call.detected.inspected[i])
        /\ IF /\ ~MarkerFound(call.detected.inspected)
              /\ call.detected.plex_hints = call.detected.jellyfin_hints
           THEN call.out.status = "1" /\ fs = fs0 /\ oplog = <<>>
           ELSE /\ call.out.status = "entered"
                /\ call.out.source_type = call.detected.type
                /\ {call.out.source_type, call.out.target_type} = {"jellyfin", "plex"}

\* a tree with more than max_files video files and a provider id in the
\* name of the last one: the first max_files are inspected, the scores are
\* both zero and sync returns 1
C32_Witness ==
    /\ AutoDetected
    /\ Len(call.in.tree.entries) = max_files + 2
    /\ JellyfinMarker(PathStem(call.in.tree.entries[max_files + 2].name))
    /\ Len(call.detected.inspected) = max_files
    /\ call.detected.plex_hints = 0 /\ call.detected.jellyfin_hints = 0
    /\ call.out.status = "1"

\* ------------------------------------------------------------------------
\* The source tree
\* ------------------------------------------------------------------------
\* the entries inside the root, the root itself included
Inside(tree, root) == Restrict(tree, {p \in DOMAIN tree : Under(p, root)})

\* C33: for every invocation of sync with distinct source and target roots,
\* nested ones included, and every option combination, no entry inside the
\* source root is created, renamed, unlinked or deleted
C33_SourceReadOnly ==
    cfg.source # cfg.target => Inside(fs, cfg.source) = Inside(fs0, cfg.source)


\* ---- the videos of a movie after process_movie ----
\* no operation of the video loop was refused: every source video either had
\* its link in place when the call began, or a link or a rename onto its
\* intended target path succeeded during the call
VideosServed ==
    /\ L.c.o.denied = {}
    /\ ~L.res.raised
    /\ \A e \in SourceVideos(L.pre, L.c) :
          \/ SameFile(L.pre, Intended(L.c, e), e)
          \/ \E i \in 1..Len(L.res.ops) :
                /\ L.res.ops[i].op \in {"link", "rename"}
                /\ L.res.ops[i].path = Intended(L.c, e)

\* C34: after process_movie has completed for a movie (no dry run, repair of
\* stale links enabled, no two source videos of one target name, no file
\* system error), every intended target video path exists and is a hard link
\* to the inode of its own source video
C34_LinkPostcondition ==
    (MovieHandled /\ L.c.o.update_filenames /\ ~L.c.o.dry_run /\ VideosServed) =>
        \A e \in SourceVideos(L.pre, L.c) :
            /\ IsFile(L.res.fs, Intended(L.c, e))
            /\ L.res.fs[Intended(L.c, e)].ino = L.pre[e].ino

\* ---- the order of the movies and the root cleanup ----
\* the operations of this run that delete a top-level entry of the target
RootDeletions ==
    {i \in 1..Len(oplog) :
        oplog[i].op \in {"unlink", "rmtree"} /\ Parent(oplog[i].path) = cfg.target}

\* the source folders the movie sequence of this run resolves
ResolvedMovies == ScanLibrary(fsRun, SourceConv(cfg), cfg.source, cfg.unreadable)

\* the run stopped before its movie sequence was exhausted
StoppedEarly == pc = "done" /\ (DOMAIN report # {} \/ result = "OSError")

\* C35: a stray top-level entry of the target is deleted only after every
\* resolved movie was yielded and processed to the end, and after such a
\* deletion nothing else is done; a run stopped by a naming conflict or by an
\* exception inside a movie deletes no top-level entry
C35_CleanupLast ==
    /\ RootDeletions # {} =>
          /\ queue = <<>>
          /\ DOMAIN report = {}
          /\ result # "OSError"
          /\ Range(processed) = ResolvedMovies
          /\ \A i \in RootDeletions : \A j \in i..Len(oplog) : j \in RootDeletions
    /\ StoppedEarly => RootDeletions = {}

\* a full run that linked videos of its two movies and then deleted the two
\* stray entries of the target root
C35_Witness ==
    /\ pc = "done" /\ result = "0"
    /\ Cardinality(RootDeletions) = 2
    /\ Len(processed) = 2
    /\ \E i \in 1..Len(oplog) : oplog[i].op = "link" /\ i < Len(oplog) - 1

\* ---- the status of a run that a name collision aborts ----
\* C36: a run aborted because source folders collide on one target name does
\* not return 0; it returns 1
C36_ConflictStatus ==
    (pc = "done" /\ DOMAIN report # {}) => result = "1"

\* ---- the scope of single-folder mode ----
\* what resolve_movie_folder returns to the run
ResolvedFolder == resolve_movie_folder(fsRun, cfg.source, cfg.partial)

\* a run in single-folder mode that got as far as resolve_movie_folder
PartialRun ==
    /\ cfg.partial # <<>> /\ run > 0
    /\ ~SourceRefused(fsRun, cfg)
    /\ IsDir(ApplyOps(fsRun, EnsureTarget(fsRun, cfg)), cfg.target)

\* C37: resolve_movie_folder returns nothing or an existing directory that is
\* a first-level child of the source root; when it returns nothing, sync
\* returns 1 and no movie is processed; a single-folder run processes one
\* first-level movie folder or none
C37_PartialScope ==
    PartialRun =>
        /\ \/ ResolvedFolder = <<>>
           \/ IsDir(fsRun, ResolvedFolder) /\ Parent(ResolvedFolder) = cfg.source
        /\ ResolvedFolder = <<>> =>
              pc = "done" /\ result = "1" /\ processed = <<>> /\ queue = <<>>
        /\ Len(processed) + Len(queue) <= 1
        /\ \A i \in 1..Len(processed) :
              IsDir(fsRun, processed[i]) /\ Parent(processed[i]) = cfg.source

\* ---- the numbers of the summary ----
\* the operations of this run that removed an entry of the target: every
\* unlink and rmtree, but for the unlink of a file that the next operation
\* links again under the same path
Removals ==
    {i \in 1..Len(oplog) :
        /\ oplog[i].op \in {"unlink", "rmtree"}
        /\ ~(i < Len(oplog) /\ oplog[i + 1].op = "link" /\ oplog[i + 1].path = oplog[i].path)}

\* the hard links this run created
LinksCreated == {i \in 1..Len(oplog) : oplog[i].op = "link"}

SummaryPrinted == pc = "done" /\ result = "0" /\ ~cfg.dry_run

\* C38: in a run without dry-run the "files removed" number of the summary
\* is the number of target entries the run removed and the "files updated"
\* number is the number of hard links it created; a removal or a link that
\* fails is not counted
C38_SummaryAccurate ==
    SummaryPrinted =>
        /\ summary.removed = Cardinality(Removals)
        /\ summary.updated = Cardinality(LinksCreated)

\* ---- the inode index of a movie ----
\* C39: every stale candidate that process_movie takes from the inode index
\* of the movie still exists in the target folder and still has the inode of
\* the source video being processed, whatever was unlinked, replaced, linked
\* or renamed in that folder earlier in the same call
C39_IndexFresh ==
    MovieCall =>
        \A i \in 1..Len(L.res.taken) :
            /\ L.res.taken[i].exists
            /\ Parent(L.res.taken[i].candidate) = TargetPath(L.c)
            /\ L.res.taken[i].inode = L.res.taken[i].source_inode
====
